---- MODULE Spec2Model ----
(***************************************************************************)
(* Kuya-data backend: the upload / re-analysis routers over the document   *)
(* store, the JSON sanitation helper, the DataCleaner cleaning engine and  *)
(* the correlation report, modelled from src/backend.                      *)
(***************************************************************************)
EXTENDS Integers, Sequences, FiniteSets, TLC

VARIABLES
    users,      \* db.users: email -> [plan, usedThisMonth]
    reports,    \* db.reports: reportId -> report document
    uploads,    \* the uploads/ directory: reportId -> stored file
    req,        \* the HTTP requests in flight: slot -> local state of the handler
    month,      \* the calendar month of datetime.utcnow()
    nextId,     \* source of fresh report identifiers (uuid4)
    db0,        \* history: the store as it was initially
    jobj,       \* sanitize_for_json: the object handed in
    jout,       \* sanitize_for_json: the object returned
    jpc,        \* sanitize_for_json: "build" | "done"
    df,             \* DataCleaner.df: the table being cleaned
    original_df,    \* DataCleaner.original_df
    cleaning_log,   \* DataCleaner.cleaning_log
    column_mapping, \* DataCleaner.column_mapping
    last,           \* history: the DataCleaner operation called last
    nops,           \* number of DataCleaner operations called so far
    corr,           \* the correlation matrix returned for df
    data,           \* the table handed to an analysis service
    result,         \* what the analysis call returned
    called          \* history: the analysis operation called, with its arguments

routerVars == <<users, reports, uploads, req, month, nextId, db0>>
jsonVars == <<jobj, jout, jpc>>
cleanerVars == <<df, original_df, cleaning_log, column_mapping, last, nops, corr>>
serviceVars == <<data, result, called>>
\* what the router actions leave alone
notRouter == <<db0, jobj, jout, jpc, cleanerVars, serviceVars>>
\* what sanitize_for_json leaves alone
notJson == <<routerVars, cleanerVars, serviceVars>>
\* what the DataCleaner leaves alone
notCleaner == <<routerVars, jsonVars, serviceVars>>
\* what the analysis services leave alone
notService == <<routerVars, jsonVars, cleanerVars>>
vars ==
    <<users, reports, uploads, req, month, nextId, db0, jobj, jout, jpc,
      df, original_df, cleaning_log, column_mapping, last, nops, corr,
      data, result, called>>

Range(s) == {s[i] : i \in 1..Len(s)}
Min(a, b) == IF a <= b THEN a ELSE b

(***************************************************************************)
(* JSON values (utils/json_utils.py).  A value is a record                  *)
(*   [t |-> type tag, v |-> scalar payload, keys |-> dict keys,             *)
(*    items |-> children]                                                   *)
(* t: "dict" "list" "ndarray" "float" "npfloat" "int" "npint" "bool"        *)
(*    "npbool" "str" "none" "nat" (pandas NaT / NA).                        *)
(***************************************************************************)
JScalar(t, v) == [t |-> t, v |-> v, keys |-> <<>>, items |-> <<>>]
JList(items) == [t |-> "list", v |-> "", keys |-> <<>>, items |-> items]
JArray(items) == [t |-> "ndarray", v |-> "", keys |-> <<>>, items |-> items]
JDict(keys, items) == [t |-> "dict", v |-> "", keys |-> keys, items |-> items]
JNone == JScalar("none", "")

NonFinite == {"nan", "inf", "-inf"}

\* math.isnan(obj) or math.isinf(obj)
IsNanOrInf(v) == v \in NonFinite

\* numpy.ndarray.tolist(): numpy scalars become Python scalars, nested arrays lists
RECURSIVE ToList(_)
ToList(x) ==
    CASE x.t = "ndarray" -> JList([i \in 1..Len(x.items) |-> ToList(x.items[i])])
      [] x.t = "npfloat" -> JScalar("float", x.v)
      [] x.t = "npint" -> JScalar("int", x.v)
      [] x.t = "npbool" -> JScalar("bool", x.v)
      [] OTHER -> x

\* pd.isna(obj) on a scalar that reached the last branch
PdIsNa(x) == x.t \in {"none", "nat"}

\* a float branch that forgets the infinity test
SanitizeFloatNanOnly(v) == IF v = "nan" THEN JNone ELSE JScalar("float", v)

SanitizeFloat(v) == IF IsNanOrInf(v) THEN JNone ELSE JScalar("float", v)

RECURSIVE sanitize_for_json(_)
sanitize_for_json(obj) ==
    CASE obj.t = "dict" ->
            JDict(obj.keys, [i \in 1..Len(obj.items) |-> sanitize_for_json(obj.items[i])])
      [] obj.t = "list" ->
            JList([i \in 1..Len(obj.items) |-> sanitize_for_json(obj.items[i])])
      [] obj.t = "npint" -> JScalar("int", obj.v)
      [] obj.t = "npfloat" -> SanitizeFloat(obj.v)
      [] obj.t = "ndarray" -> sanitize_for_json(ToList(obj))
      [] obj.t = "npbool" -> JScalar("bool", obj.v)
      [] obj.t = "float" -> SanitizeFloat(obj.v)
      [] PdIsNa(obj) -> JNone
      [] OTHER -> obj

(***************************************************************************)
(* Uploaded files.  A file is its name (segments between dots), what         *)
(* pandas makes of its bytes (parse: "ok" or the exception read_csv /        *)
(* read_excel raises), the parsed table's row count and column names, and    *)
(* what the kuya library finds in it.                                        *)
(***************************************************************************)
NoEmail == "<none>"
NoTarget == "<none>"

MaxRows == 100000
FreeLimit == 3
StarterLimit == 15
ProLimit == 30
EnterpriseLimit == 999999
StoredHead == 20
ResponseHead == 10000

\* str.lower() on the tokens that occur in file names
Lower(tok) ==
    CASE tok = "CSV" -> "csv"
      [] tok = "XLSX" -> "xlsx"
      [] OTHER -> tok

\* file.filename.lower().split(".")[-1]
FileExt(f) == Lower(f.segs[Len(f.segs)])

File(segs, parse, rows, cols, qcRaises, cleanRows, stat) ==
    [segs |-> segs, parse |-> parse, rows |-> rows, cols |-> cols,
     qcRaises |-> qcRaises, cleanRows |-> cleanRows, stat |-> stat]

DataCsv == File(<<"data", "csv">>, "ok", 25, {"Age", "b"}, FALSE, 24, JScalar("npfloat", "1.5"))
WideCsv == File(<<"wide", "CSV">>, "ok", MaxRows, {"a", "b"}, TRUE, MaxRows, JScalar("npfloat", "nan"))
HeaderOnlyCsv == File(<<"hdr", "csv">>, "ok", 0, {"a"}, FALSE, 0, JNone)
BlankCsv == File(<<"blank", "csv">>, "EmptyDataError", 0, {}, FALSE, 0, JNone)
TornCsv == File(<<"torn", "csv">>, "ParserError", 0, {}, FALSE, 0, JNone)
BadXlsx == File(<<"bad", "xlsx">>, "BadZipFile", 0, {}, FALSE, 0, JNone)
HugeCsv == File(<<"huge", "csv">>, "ok", MaxRows + 1, {"a"}, FALSE, MaxRows + 1, JNone)
NotesTxt == File(<<"notes", "txt">>, "ok", 3, {"a"}, FALSE, 3, JNone)
NoName == File(<<>>, "ok", 3, {"a"}, FALSE, 3, JNone)

GoodFiles == {DataCsv, WideCsv}
BadFiles == {HeaderOnlyCsv, BlankCsv, TornCsv, BadXlsx, HugeCsv, NotesTxt, NoName}

\* the claim's "input error": bad extension, empty table, too many rows, unparseable
InputError(f) ==
    \/ f.segs = <<>>
    \/ FileExt(f) \notin {"csv", "xls", "xlsx"}
    \/ f.parse # "ok"
    \/ f.rows = 0
    \/ f.rows > MaxRows

(***************************************************************************)
(* KuyaDataService (services/kuya_service.py).  The table held in self.kdf  *)
(* is the parsed file plus the library operations applied to it so far.     *)
(***************************************************************************)
Table(f) == [src |-> f.segs, rows |-> f.rows, cols |-> f.cols, ops |-> <<>>]

\* str.lower() on the column names that occur
ColLower(c) == IF c = "Age" THEN "age" ELSE c

\* KuyaDataService.quick_clean: ky.quick_clean standardizes the column names,
\* fixes types, fills missing values and removes outlier rows
quick_clean(f, kdf) ==
    [kdf EXCEPT !.ops = Append(@, "quick_clean"),
                !.cols = {ColLower(c) : c \in kdf.cols},
                !.rows = f.cleanRows]

\* the except branch of process_features: standardize_columns, fix_dtypes, clean_missing
CleanFallback(kdf) ==
    [kdf EXCEPT !.ops = @ \o <<"standardize_columns", "fix_dtypes", "clean_missing">>,
                !.cols = {ColLower(c) : c \in kdf.cols}]

RunAll(features) == "all" \in Range(features) \/ "magic" \in Range(features)

\* the cleaning stage of process_features takes the target into account
CleanStageTargetAware(f, features, target) ==
    IF RunAll(features) \/ "cleaning" \in Range(features) \/ target # NoTarget
    THEN (IF f.qcRaises THEN CleanFallback(Table(f)) ELSE quick_clean(f, Table(f)))
    ELSE Table(f)

\* process_features, the cleaning stage: the table after it
CleanStage(f, features, target) ==
    IF RunAll(features) \/ "cleaning" \in Range(features)
    THEN (IF f.qcRaises THEN CleanFallback(Table(f)) ELSE quick_clean(f, Table(f)))
    ELSE Table(f)

CleaningLog(f, features) ==
    IF RunAll(features) \/ "cleaning" \in Range(features)
    THEN (IF f.qcRaises
          THEN <<"Standardized column names", "Fixed data types", "Handled missing values">>
          ELSE <<"Applied ky.quick_clean()">>)
    ELSE <<>>

\* `if target_column:` is false for None and for the empty string
Truthy(s) == s \notin {NoTarget, NoEmail, ""}

NoAnalysis == [error |-> "", target_column |-> "", rows |-> 0]

target_aware_analysis(kdf, target) ==
    IF target \notin kdf.cols
    THEN [error |-> target, target_column |-> "", rows |-> 0]
    ELSE [error |-> "", target_column |-> target, rows |-> kdf.rows]

\* DataFrame.head(n).to_dict(orient="records")
DfHead(frame, n) ==
    [src |-> frame.src, cols |-> frame.cols, ops |-> frame.ops, rows |-> Min(frame.rows, n)]

process_features(f, features, target) ==
    LET kdf == CleanStage(f, features, target)
    IN  [cleaning_log |-> CleaningLog(f, features),
         cleaned_df |-> kdf,
         summary |-> JDict(<<"mean">>, <<f.stat>>),
         targetAnalysis |-> IF Truthy(target) THEN target_aware_analysis(kdf, target)
                            ELSE NoAnalysis]

(***************************************************************************)
(* The document store and the request handlers (routers/upload.py,          *)
(* routers/report.py).  A handler runs without interruption between two      *)
(* awaits; each action below is one such stretch.                            *)
(***************************************************************************)
MaxReqs == 2
MaxMonth == 1

Reqs == 1..MaxReqs
Registered == {"ann@x"}
Emails == {NoEmail, "ann@x", "ghost@x"}

\* limits = {...}; limits.get(plan, 3)
PlanLimit(plan) ==
    CASE plan = "free" -> FreeLimit
      [] plan = "starter" -> StarterLimit
      [] plan = "pro" -> ProLimit
      [] plan = "enterprise" -> EnterpriseLimit
      [] OTHER -> FreeLimit

NoBody == [success |-> FALSE, reportId |-> 0, selectedFeatures |-> <<>>,
           cleanedDataHead |-> DfHead(Table(NoName), 0), summary |-> JNone,
           targetAnalysis |-> NoAnalysis]
NoResp == [status |-> 0, detail |-> <<>>, body |-> NoBody]

\* raise HTTPException(status_code, detail) reaching the client as raised
HttpError(status, detail) == [status |-> status, detail |-> <<detail>>, body |-> NoBody]

\* str(e) of the exception e
ExcStr(exc) == IF exc.type = "HTTPException" THEN exc.detail ELSE exc.type

\* the except clauses of upload_file, lines 218-226, in order
UploadExcept(exc) ==
    CASE exc.type = "EmptyDataError" ->
            [status |-> 400, detail |-> <<"File is empty or corrupted">>, body |-> NoBody]
      [] exc.type = "ParserError" ->
            [status |-> 400, detail |-> <<"Could not parse file">>, body |-> NoBody]
      [] OTHER ->
            [status |-> 500, detail |-> <<"Processing error", ExcStr(exc)>>, body |-> NoBody]

\* the except clause of reanalyze_report, lines 113-117
ReanalyzeExcept(exc) ==
    [status |-> 500, detail |-> <<"Analysis failed", ExcStr(exc)>>, body |-> NoBody]

HTTPException(status, detail) == [type |-> "HTTPException", status |-> status, detail |-> detail]
Raised(type) == [type |-> type, status |-> 0, detail |-> ""]

Idle == [kind |-> "idle", pc |-> "idle", email |-> NoEmail, file |-> NoName,
         features |-> <<>>, target |-> NoTarget,
         user |-> [plan |-> "", usedThisMonth |-> 0], rid |-> 0,
         wroteFile |-> FALSE, ranPipeline |-> FALSE, inserted |-> FALSE,
         incremented |-> FALSE, overQuota |-> FALSE, admittedAt |-> -1, som |-> 0, stamp |-> 0,
         resp |-> NoResp]

\* count_documents({"userEmail": email, "createdAt": {"$gte": start_of_month}})
CountReports(email, som) ==
    Cardinality({id \in DOMAIN reports :
                    reports[id].userEmail = email /\ reports[id].createdAt >= som})

Finish(r, resp) == req' = [req EXCEPT ![r].pc = "done", ![r].resp = resp]

\* json.loads(features) of the form field; "all" and unparsable text give ["all"]
ParseFeatures(form) ==
    CASE form = "all" -> <<"all">>
      [] form = "[\"correlation\"]" -> <<"correlation">>
      [] form = "[\"cleaning\"]" -> <<"cleaning">>
      [] OTHER -> <<"all">>

\* report_doc of upload_file, lines 152-177
ReportDoc(rid, email, f, features, target, createdAt) ==
    LET results == process_features(f, features, target)
    IN  [reportId |-> rid, userEmail |-> email, fileName |-> f.segs,
         fileExt |-> FileExt(f), createdAt |-> createdAt,
         selectedFeatures |-> features, targetColumn |-> target,
         summary |-> sanitize_for_json(results.summary),
         cleanedDataHead |-> DfHead(results.cleaned_df, StoredHead),
         cleaningLog |-> results.cleaning_log,
         targetAnalysis |-> results.targetAnalysis,
         updatedAt |-> -1]

\* response_data of upload_file (lines 193-214) and of reanalyze_report (88-107)
SuccessBody(rid, f, features, target) ==
    LET results == process_features(f, features, target)
    IN  [success |-> TRUE, reportId |-> rid, selectedFeatures |-> features,
         cleanedDataHead |-> DfHead(results.cleaned_df, ResponseHead),
         summary |-> sanitize_for_json(results.summary),
         targetAnalysis |-> results.targetAnalysis]

Success(rid, f, features, target) ==
    [status |-> 200, detail |-> <<>>, body |-> SuccessBody(rid, f, features, target)]

\* upload_file, lines 44-72: the filename and extension checks, the features
\* field, and users.find_one
StartUpload(r, email, f, form, target) ==
    /\ req[r].kind = "idle"
    /\ LET q == [req[r] EXCEPT !.kind = "upload", !.email = email, !.file = f,
                               !.features = ParseFeatures(form), !.target = target,
                               !.som = month]
       IN  IF f.segs = <<>>
           THEN req' = [req EXCEPT ![r] = [q EXCEPT !.pc = "done",
                            !.resp = HttpError(400, "No file provided")]]
           ELSE IF FileExt(f) \notin {"csv", "xls", "xlsx"}
           THEN req' = [req EXCEPT ![r] = [q EXCEPT !.pc = "done",
                            !.resp = HttpError(400, "Invalid file type")]]
           ELSE IF Truthy(email) /\ email \in DOMAIN users
           THEN req' = [req EXCEPT ![r] = [q EXCEPT !.pc = "count",
                            !.user = users[email]]]
           ELSE req' = [req EXCEPT ![r] = [q EXCEPT !.pc = "read"]]
    /\ UNCHANGED <<users, reports, uploads, month, nextId, notRouter>>

\* upload_file, lines 73-85: reports.count_documents and the limit test
CheckPlanLimit(r) ==
    /\ req[r].kind = "upload" /\ req[r].pc = "count"
    /\ LET used_this_month == CountReports(req[r].email, req[r].som)
           limit == PlanLimit(req[r].user.plan)
       IN  IF used_this_month >= limit
           THEN req' = [req EXCEPT ![r].pc = "done", ![r].overQuota = TRUE,
                           ![r].resp = UploadExcept(HTTPException(403, "Plan limit reached"))]
           ELSE req' = [req EXCEPT ![r].pc = "read", ![r].admittedAt = used_this_month]
    /\ UNCHANGED <<users, reports, uploads, month, nextId, notRouter>>

\* the copy under uploads/ made before the table is looked at
ReadAndProcessSaveFirst(r) ==
    /\ req[r].kind = "upload" /\ req[r].pc = "read"
    /\ LET f == req[r].file
           saved == [id \in DOMAIN uploads \cup {nextId} |->
                        IF id = nextId THEN f ELSE uploads[id]]
       IN  IF f.parse # "ok"
           THEN /\ Finish(r, UploadExcept(Raised(f.parse)))
                /\ UNCHANGED <<uploads, nextId>>
           ELSE IF f.rows = 0
           THEN /\ req' = [req EXCEPT ![r].pc = "done", ![r].wroteFile = TRUE,
                              ![r].resp = UploadExcept(HTTPException(400, "File is empty"))]
                /\ uploads' = saved /\ nextId' = nextId + 1
           ELSE IF f.rows > MaxRows
           THEN /\ req' = [req EXCEPT ![r].pc = "done", ![r].wroteFile = TRUE,
                              ![r].resp = UploadExcept(HTTPException(400, "File too large"))]
                /\ uploads' = saved /\ nextId' = nextId + 1
           ELSE /\ nextId' = nextId + 1
                /\ uploads' = saved
                /\ req' = [req EXCEPT ![r].pc = "insert", ![r].rid = nextId,
                                      ![r].wroteFile = TRUE, ![r].ranPipeline = TRUE,
                                      ![r].stamp = month]
    /\ UNCHANGED <<users, reports, month, notRouter>>

\* upload_file, lines 87-177: file.read, the parse, the empty and size tests, the
\* copy under uploads/, process_features and the report document
ReadAndProcess(r) ==
    /\ req[r].kind = "upload" /\ req[r].pc = "read"
    /\ LET f == req[r].file
       IN  IF f.parse # "ok"
           THEN /\ Finish(r, UploadExcept(Raised(f.parse)))
                /\ UNCHANGED <<uploads, nextId>>
           ELSE IF f.rows = 0
           THEN /\ Finish(r, UploadExcept(HTTPException(400, "File is empty")))
                /\ UNCHANGED <<uploads, nextId>>
           ELSE IF f.rows > MaxRows
           THEN /\ Finish(r, UploadExcept(HTTPException(400, "File too large")))
                /\ UNCHANGED <<uploads, nextId>>
           ELSE /\ nextId' = nextId + 1
                /\ uploads' = [id \in DOMAIN uploads \cup {nextId} |->
                                 IF id = nextId THEN f ELSE uploads[id]]
                /\ req' = [req EXCEPT ![r].pc = "insert", ![r].rid = nextId,
                                      ![r].wroteFile = TRUE, ![r].ranPipeline = TRUE,
                                      ![r].stamp = month]
    /\ UNCHANGED <<users, reports, month, notRouter>>

\* upload_file, lines 179-183: reports.insert_one
InsertReport(r) ==
    /\ req[r].kind = "upload" /\ req[r].pc = "insert"
    /\ LET q == req[r]
           doc == ReportDoc(q.rid, q.email, q.file, q.features, q.target, q.stamp)
       IN  /\ reports' = [id \in DOMAIN reports \cup {q.rid} |->
                            IF id = q.rid THEN doc ELSE reports[id]]
           /\ IF Truthy(q.email)
              THEN req' = [req EXCEPT ![r].pc = "inc", ![r].inserted = TRUE]
              ELSE req' = [req EXCEPT ![r].pc = "done", ![r].inserted = TRUE,
                              ![r].resp = Success(q.rid, q.file, q.features, q.target)]
    /\ UNCHANGED <<users, uploads, month, nextId, notRouter>>

\* a usage update written as read-modify-write of the user document read at admission
IncUsageReadModifyWrite(r) ==
    /\ req[r].kind = "upload" /\ req[r].pc = "inc"
    /\ LET q == req[r]
       IN  /\ users' = IF q.email \in DOMAIN users
                       THEN [users EXCEPT ![q.email].usedThisMonth = q.user.usedThisMonth + 1]
                       ELSE users
           /\ req' = [req EXCEPT ![r].pc = "done", ![r].incremented = TRUE,
                           ![r].resp = Success(q.rid, q.file, q.features, q.target)]
    /\ UNCHANGED <<reports, uploads, month, nextId, notRouter>>

\* upload_file, lines 184-216: users.update_one $inc usedThisMonth, the response
IncUsage(r) ==
    /\ req[r].kind = "upload" /\ req[r].pc = "inc"
    /\ LET q == req[r]
       IN  /\ users' = IF q.email \in DOMAIN users
                       THEN [users EXCEPT ![q.email].usedThisMonth = @ + 1]
                       ELSE users
           /\ req' = [req EXCEPT ![r].pc = "done", ![r].incremented = TRUE,
                           ![r].resp = Success(q.rid, q.file, q.features, q.target)]
    /\ UNCHANGED <<reports, uploads, month, nextId, notRouter>>

\* update_data of reanalyze_report, lines 60-80, applied by $set
SetUpdateData(doc, f, features, target, updatedAt) ==
    LET results == process_features(f, features, target)
    IN  [doc EXCEPT !.selectedFeatures = features, !.targetColumn = target,
                    !.summary = sanitize_for_json(results.summary),
                    !.cleanedDataHead = DfHead(results.cleaned_df, ResponseHead),
                    !.cleaningLog = results.cleaning_log,
                    !.targetAnalysis = results.targetAnalysis,
                    !.updatedAt = updatedAt]

\* reanalyze_report, lines 32-80: reports.find_one, the stored file, process_features
StartReanalyze(r, id, features, target) ==
    /\ req[r].kind = "idle"
    /\ LET q == [req[r] EXCEPT !.kind = "reanalyze", !.rid = id, !.features = features,
                               !.target = target, !.stamp = month]
       IN  IF id \notin DOMAIN reports
           THEN req' = [req EXCEPT ![r] = [q EXCEPT !.pc = "done",
                            !.resp = ReanalyzeExcept(HTTPException(404, "Report not found"))]]
           ELSE IF id \notin DOMAIN uploads
           THEN req' = [req EXCEPT ![r] = [q EXCEPT !.pc = "done",
                            !.resp = ReanalyzeExcept(
                                HTTPException(404, "Original file not found on server"))]]
           ELSE req' = [req EXCEPT ![r] = [q EXCEPT !.pc = "update",
                            !.file = uploads[id], !.ranPipeline = TRUE]]
    /\ UNCHANGED <<users, reports, uploads, month, nextId, notRouter>>

\* a re-analysis that stores its result as a new document replacing the old one
UpdateReportReplace(r) ==
    /\ req[r].kind = "reanalyze" /\ req[r].pc = "update"
    /\ LET q == req[r]
       IN  /\ reports' = IF q.rid \in DOMAIN reports
                         THEN [id \in (DOMAIN reports \ {q.rid}) \cup {nextId} |->
                                 IF id = nextId
                                 THEN [SetUpdateData(reports[q.rid], q.file, q.features,
                                                     q.target, q.stamp)
                                          EXCEPT !.reportId = nextId, !.createdAt = q.stamp]
                                 ELSE reports[id]]
                         ELSE reports
           /\ nextId' = nextId + 1
           /\ Finish(r, Success(q.rid, q.file, q.features, q.target))
    /\ UNCHANGED <<users, uploads, month, notRouter>>

\* a re-analysis that is charged to the owner of the report
UpdateReportCounted(r) ==
    /\ req[r].kind = "reanalyze" /\ req[r].pc = "update"
    /\ LET q == req[r]
       IN  /\ reports' = IF q.rid \in DOMAIN reports
                         THEN [reports EXCEPT ![q.rid] =
                                 SetUpdateData(@, q.file, q.features, q.target, q.stamp)]
                         ELSE reports
           /\ users' = IF q.rid \in DOMAIN reports /\ reports[q.rid].userEmail \in DOMAIN users
                       THEN [users EXCEPT ![reports[q.rid].userEmail].usedThisMonth = @ + 1]
                       ELSE users
           /\ Finish(r, Success(q.rid, q.file, q.features, q.target))
    /\ UNCHANGED <<uploads, month, nextId, notRouter>>

\* reanalyze_report, lines 82-111: reports.update_one $set, the response
UpdateReport(r) ==
    /\ req[r].kind = "reanalyze" /\ req[r].pc = "update"
    /\ LET q == req[r]
       IN  /\ reports' = IF q.rid \in DOMAIN reports
                         THEN [reports EXCEPT ![q.rid] =
                                 SetUpdateData(@, q.file, q.features, q.target, q.stamp)]
                         ELSE reports
           /\ Finish(r, Success(q.rid, q.file, q.features, q.target))
    /\ UNCHANGED <<users, uploads, month, nextId, notRouter>>

\* the calendar moves to the next month
NewMonth ==
    /\ month < MaxMonth
    /\ month' = month + 1
    /\ UNCHANGED <<users, reports, uploads, req, nextId, notRouter>>

(***************************************************************************)
(* Initial states: one registered user with some reports of this month       *)
(* already stored (each with its file under uploads/), no request in flight. *)
(***************************************************************************)
JsonIdle == jobj = JNone /\ jout = JNone /\ jpc = "off"

\* no DataCleaner has been constructed
CleanerIdle ==
    /\ df = [index |-> <<>>, cols |-> <<>>]
    /\ original_df = df
    /\ cleaning_log = <<>>
    /\ column_mapping = <<>>
    /\ last = [op |-> "", arg |-> "", raised |-> FALSE]
    /\ nops = 0
    /\ corr = <<>>

\* no analysis service has been called
NotCalled == [op |-> "", up |-> FALSE]
ServiceIdle == data = <<>> /\ result = <<>> /\ called = NotCalled

OthersIdle == JsonIdle /\ CleanerIdle /\ ServiceIdle

RouterInit(plans, usage) ==
    /\ \E p \in plans, k \in usage :
          /\ users = [e \in Registered |-> [plan |-> p, usedThisMonth |-> k]]
          /\ reports = [id \in 1..k |->
                          ReportDoc(id, "ann@x", DataCsv, <<"all">>, NoTarget, 0)]
          /\ uploads = [id \in 1..k |-> DataCsv]
          /\ nextId = k + 1
    /\ db0 = [users |-> users, reports |-> reports, uploads |-> uploads]
    /\ req = [r \in Reqs |-> Idle]
    /\ month = 0

\* requests are numbered in the order they arrive
InOrder(r) == IF r = 1 THEN TRUE ELSE req[r - 1].kind # "idle"

Features == {<<"all">>, <<"correlation">>}
Targets == {NoTarget, "", "Age", "b"}

\* concurrent uploads within one month
Init == RouterInit({"free"}, {0, FreeLimit - 1, FreeLimit}) /\ OthersIdle

Next ==
    \/ \E r \in Reqs, e \in Emails, f \in {DataCsv, HugeCsv} :
          InOrder(r) /\ StartUpload(r, e, f, "all", NoTarget)
    \/ \E r \in Reqs : CheckPlanLimit(r)
    \/ \E r \in Reqs : ReadAndProcess(r)
    \/ \E r \in Reqs : InsertReport(r)
    \/ \E r \in Reqs : IncUsage(r)

Spec == Init /\ [][Next]_vars

\* one upload, of every kind of file, in any month
InitInput ==
    RouterInit({"free", "legacy", "starter"}, {0, FreeLimit - 1, FreeLimit, FreeLimit + 1})
        /\ OthersIdle

NextInput ==
    \/ \E e \in Emails, f \in GoodFiles \cup BadFiles : StartUpload(1, e, f, "all", NoTarget)
    \/ CheckPlanLimit(1)
    \/ ReadAndProcess(1)
    \/ InsertReport(1)
    \/ IncUsage(1)
    \/ NewMonth

SpecInput == InitInput /\ [][NextInput]_vars

\* uploads and re-analyses with a choice of features and target
InitReanalyze == RouterInit({"free"}, {0}) /\ OthersIdle

NextReanalyze ==
    \/ \E r \in Reqs, f \in GoodFiles, form \in {"all", "[\"correlation\"]"},
             t \in {NoTarget, "Age"} :
          InOrder(r) /\ StartUpload(r, NoEmail, f, form, t)
    \/ \E r \in Reqs, id \in 1..nextId, fs \in Features, t \in Targets :
          InOrder(r) /\ StartReanalyze(r, id, fs, t)
    \/ \E r \in Reqs : ReadAndProcess(r)
    \/ \E r \in Reqs : InsertReport(r)
    \/ \E r \in Reqs : UpdateReport(r)

SpecReanalyze == InitReanalyze /\ [][NextReanalyze]_vars

(***************************************************************************)
(* sanitize_for_json applied to nested values.  A value is built bottom-up  *)
(* from a leaf by wrapping it in lists, dicts and numpy arrays, and is then  *)
(* sanitized.                                                                *)
(***************************************************************************)
MaxDepth == 2

RECURSIVE JDepth(_)
JDepth(x) ==
    IF x.t \in {"dict", "list", "ndarray"}
    THEN 1 + (IF x.items = <<>> THEN 0
              ELSE LET d == {JDepth(x.items[i]) : i \in 1..Len(x.items)}
                   IN CHOOSE m \in d : \A n \in d : n <= m)
    ELSE 0

NumpyLeaves ==
    {JScalar("npfloat", v) : v \in {"nan", "inf", "1.5"}}
        \cup {JScalar("npint", "7"), JScalar("npbool", "True")}

Leaves ==
    {JScalar("float", v) : v \in {"nan", "inf", "-inf", "1.5"}}
        \cup NumpyLeaves
        \cup {JScalar("int", "7"), JScalar("bool", "True"), JScalar("str", "x"),
              JScalar("str", "nan"), JNone, JScalar("nat", "")}

Siblings == {JScalar("float", "nan"), JScalar("float", "1.5"), JScalar("str", "nan"), JNone}

IsNumpy(x) == x.t \in {"ndarray", "npfloat", "npint", "npbool"}

InitJson ==
    /\ RouterInit({"free"}, {0})
    /\ CleanerIdle
    /\ ServiceIdle
    /\ jobj \in Leaves
    /\ jout = JNone
    /\ jpc = "build"

WrapList ==
    /\ jpc = "build"
    /\ JDepth(jobj) < MaxDepth
    /\ \/ jobj' = JList(<<>>)
       \/ jobj' = JList(<<jobj>>)
       \/ \E sib \in Siblings : jobj' \in {JList(<<jobj, sib>>), JList(<<sib, jobj>>)}
    /\ UNCHANGED <<jout, jpc, notJson>>

WrapDict ==
    /\ jpc = "build"
    /\ JDepth(jobj) < MaxDepth
    /\ \/ jobj' = JDict(<<"mean">>, <<jobj>>)
       \/ \E sib \in Siblings :
             jobj' \in {JDict(<<"mean", "std">>, <<jobj, sib>>),
                        JDict(<<"mean", "std">>, <<sib, jobj>>)}
    /\ UNCHANGED <<jout, jpc, notJson>>

WrapArray ==
    /\ jpc = "build"
    /\ JDepth(jobj) < MaxDepth
    /\ IsNumpy(jobj)
    /\ \/ jobj' = JArray(<<jobj>>)
       \/ \E sib \in NumpyLeaves : jobj' = JArray(<<jobj, sib>>)
    /\ UNCHANGED <<jout, jpc, notJson>>

Sanitize ==
    /\ jpc = "build"
    /\ jout' = sanitize_for_json(jobj)
    /\ jpc' = "done"
    /\ UNCHANGED <<jobj, notJson>>

NextJson == WrapList \/ WrapDict \/ WrapArray \/ Sanitize

SpecJson == InitJson /\ [][NextJson]_vars

(***************************************************************************)
(* Claims about the routers                                                  *)
(***************************************************************************)
Quiet == \A r \in Reqs : req[r].pc \in {"idle", "done"}

\* the response upload_file gives for a processing failure (line 226)
IsProcessingError(resp) ==
    resp.status = 500 /\ Len(resp.detail) > 0 /\ resp.detail[1] = "Processing error"

\* C1: an upload of a user whose usage this month has reached the plan limit is
\* rejected before the file is read or parsed, and the error returned is a
\* quota error, not the error a processing failure returns.
C1_QuotaErrorDistinct ==
    \A r \in Reqs :
        req[r].overQuota =>
            /\ ~req[r].wroteFile /\ ~req[r].ranPipeline
            /\ req[r].resp.status # 200
            /\ ~IsProcessingError(req[r].resp)

\* C2: no increment is lost: once the uploads have ended, usedThisMonth of a user
\* is its initial value plus the number of that user's uploads that stored a report.
C2_NoLostIncrement ==
    Quiet =>
        \A e \in DOMAIN users :
            users[e].usedThisMonth =
                db0.users[e].usedThisMonth
                + Cardinality({r \in Reqs : req[r].email = e /\ req[r].inserted})

C2_Witness ==
    /\ Quiet
    /\ Cardinality({r \in Reqs : req[r].email = "ann@x" /\ req[r].inserted}) >= 2

\* C3: an upload with an input error (bad extension, empty table, too many rows,
\* unparseable file) never enters the pipeline, writes no file under uploads/,
\* inserts no report and leaves the usage counter as it was.
C3_InputErrorRejected ==
    \A r \in Reqs :
        (req[r].kind = "upload" /\ InputError(req[r].file)) =>
            /\ ~req[r].ranPipeline /\ ~req[r].wroteFile
            /\ ~req[r].inserted /\ ~req[r].incremented
            /\ uploads = db0.uploads /\ reports = db0.reports /\ users = db0.users
            /\ (req[r].pc = "done" => req[r].resp.status # 200)

C3_Witness ==
    \E r \in Reqs :
        /\ req[r].pc = "done" /\ req[r].file = HugeCsv
        /\ req[r].email = "ann@x" /\ req[r].admittedAt >= 0

\* C4 as stated: a stored report is never modified once created.
C4_ReportImmutable ==
    [][\A id \in DOMAIN reports : id \in DOMAIN reports' /\ reports'[id] = reports[id]]_vars

Identity(doc) ==
    <<doc.reportId, doc.userEmail, doc.fileName, doc.fileExt, doc.createdAt>>

\* C4, amended: a re-analysis rewrites the analysis fields of the existing report
\* document in place; the document keeps its reportId, userEmail, fileName, fileExt
\* and createdAt, no document is added or removed by it, and no other document
\* changes.
C4_UpdatedInPlace ==
    [][\A r \in Reqs :
          (req[r].kind = "reanalyze" /\ req[r].pc = "update" /\ req'[r].pc = "done") =>
              /\ DOMAIN reports' = DOMAIN reports
              /\ \A id \in DOMAIN reports :
                    /\ Identity(reports'[id]) = Identity(reports[id])
                    /\ id # req[r].rid => reports'[id] = reports[id]
              /\ req[r].rid \in DOMAIN reports =>
                    reports'[req[r].rid] =
                        SetUpdateData(reports[req[r].rid], req[r].file, req[r].features,
                                      req[r].target, req[r].stamp)]_vars

C4_Witness ==
    \E r \in Reqs :
        /\ req[r].kind = "reanalyze" /\ req[r].pc = "done" /\ req[r].resp.status = 200
        /\ reports[req[r].rid].updatedAt >= 0
        /\ reports[req[r].rid].targetColumn = "b"

\* the column a target_column value designates: None and "" designate none
Designated(t) == IF Truthy(t) THEN t ELSE NoTarget

SameFileOtherTarget(u, q) ==
    /\ req[u].kind = "upload" /\ req[u].pc = "done" /\ req[u].resp.status = 200
    /\ req[q].kind = "reanalyze" /\ req[q].pc = "done" /\ req[q].resp.status = 200
    /\ req[q].rid = req[u].rid
    /\ req[q].features = req[u].features
    /\ Designated(req[q].target) # Designated(req[u].target)

\* C5: a re-analysis of the same stored file with the same features and another
\* target column returns the cleaned-data preview the upload returned, and a
\* different target analysis.
C5_SamePreviewOtherTarget ==
    \A u, q \in Reqs :
        SameFileOtherTarget(u, q) =>
            /\ req[q].resp.body.cleanedDataHead = req[u].resp.body.cleanedDataHead
            /\ req[q].resp.body.targetAnalysis # req[u].resp.body.targetAnalysis

C5_Witness ==
    \E u, q \in Reqs :
        /\ SameFileOtherTarget(u, q)
        /\ req[u].target = "Age" /\ req[q].target = "b"
        /\ req[u].features = <<"correlation">>

(***************************************************************************)
(* Claims about sanitize_for_json                                            *)
(***************************************************************************)
RECURSIVE HasNonFinite(_)
HasNonFinite(x) ==
    \/ x.t \in {"float", "npfloat"} /\ x.v \in NonFinite
    \/ x.t = "nat"
    \/ \E i \in 1..Len(x.items) : HasNonFinite(x.items[i])

\* y has the structure of x: the same keys, the same lengths, every finite value
\* where it was, and null exactly where x had a non-finite or missing value
RECURSIVE Preserved(_, _)
Preserved(x, y) ==
    CASE x.t = "dict" ->
            /\ y.t = "dict" /\ y.keys = x.keys /\ Len(y.items) = Len(x.items)
            /\ \A i \in 1..Len(x.items) : Preserved(x.items[i], y.items[i])
      [] x.t \in {"list", "ndarray"} ->
            /\ y.t = "list" /\ Len(y.items) = Len(x.items)
            /\ \A i \in 1..Len(x.items) : Preserved(x.items[i], y.items[i])
      [] x.t \in {"float", "npfloat"} ->
            y = (IF x.v \in NonFinite THEN JNone ELSE JScalar("float", x.v))
      [] x.t = "npint" -> y = JScalar("int", x.v)
      [] x.t = "npbool" -> y = JScalar("bool", x.v)
      [] x.t \in {"none", "nat"} -> y = JNone
      [] OTHER -> y = x

\* C6: the sanitized object holds no NaN and no infinity at any depth, and has the
\* structure of the input: the same keys, the same list lengths, the finite values
\* unchanged, null in place of each non-finite value.
C6_SanitizedFinite ==
    jpc = "done" => ~HasNonFinite(jout) /\ Preserved(jobj, jout)

C6_Witness ==
    /\ jpc = "done"
    /\ JDepth(jobj) = MaxDepth
    /\ jobj.t = "dict" /\ Len(jobj.items) = 2
    /\ jobj.items[1].t = "ndarray" /\ HasNonFinite(jobj.items[1])
    /\ jobj.items[2] = JScalar("float", "1.5")

(***************************************************************************)
(* Tables (pandas.DataFrame) as services/cleaner.py sees them.               *)
(*   table  = [index |-> row labels, cols |-> sequence of columns]           *)
(*   column = [name |-> sequence of characters, dtype |-> pandas dtype,      *)
(*             cells |-> sequence of cells, one per row]                     *)
(*   cell   = [k |-> "num" | "str" | "date" | "bool" | "nan",                *)
(*             n, d |-> the number n/d, s |-> the text]                      *)
(* Numbers are fractions in lowest terms; a result finer than 1/Prec is      *)
(* rounded to the nearest multiple of 1/Prec, as a float keeps finitely many *)
(* digits.                                                                   *)
(***************************************************************************)
Abs(x) == IF x < 0 THEN -x ELSE x

RECURSIVE GCD(_, _)
GCD(a, b) == IF b = 0 THEN a ELSE GCD(b, a % b)

Prec == 100

\* n/d in lowest terms, d > 0
Reduce(n, d) == [n |-> n \div GCD(Abs(n), d), d |-> d \div GCD(Abs(n), d)]

RoundQ(q) ==
    IF q.d <= Prec THEN q
    ELSE Reduce((q.n \div q.d) * Prec + (2 * (q.n % q.d) * Prec + q.d) \div (2 * q.d), Prec)

Q(n, d) == RoundQ(IF d < 0 THEN Reduce(-n, -d) ELSE Reduce(n, d))

QInt(i) == [n |-> i, d |-> 1]
QAdd(a, b) == Q(a.n * b.d + b.n * a.d, a.d * b.d)
QSub(a, b) == Q(a.n * b.d - b.n * a.d, a.d * b.d)
QMul(a, b) == Q(a.n * b.n, a.d * b.d)
QDiv(a, b) == Q(a.n * b.d, a.d * b.n)
QLt(a, b) == a.n * b.d < b.n * a.d
QLe(a, b) == a.n * b.d <= b.n * a.d
QAbs(a) == [n |-> Abs(a.n), d |-> a.d]
QIsInt(a) == a.d = 1

NaN == [k |-> "nan", n |-> 0, d |-> 1, s |-> ""]
Num(q) == [k |-> "num", n |-> q.n, d |-> q.d, s |-> ""]
IntCell(i) == Num(QInt(i))
Str(s) == [k |-> "str", n |-> 0, d |-> 1, s |-> s]
Date(s) == [k |-> "date", n |-> 0, d |-> 1, s |-> s]
Bool(b) == [k |-> "bool", n |-> IF b THEN 1 ELSE 0, d |-> 1, s |-> ""]

\* pandas isnull() / isna() of a cell
IsNull(c) == c.k = "nan"
Val(c) == [n |-> c.n, d |-> c.d]

\* the texts that occur in cells, in Python's string order
Strings == <<"0", "2021-01-05", "2021-02-06", "7", "8", "Unknown", "nan", "x", "x ", "y">>
StrRank(s) == CHOOSE i \in 1..Len(Strings) : Strings[i] = s

\* str.strip()
Strip(s) == IF s = "x " THEN "x" ELSE s

\* pd.to_numeric(errors="coerce") of one text: the number, or NaN
ToNumeric(s) ==
    CASE s = "0" -> IntCell(0)
      [] s = "7" -> IntCell(7)
      [] s = "8" -> IntCell(8)
      [] OTHER -> NaN

\* re.search of one of the date_patterns of auto_parse_dates in a text
DateLike(s) == s \in {"2021-01-05", "2021-02-06"}

\* str(value) of a cell, as astype(str) gives it
Digit(i) == <<"0", "1", "2", "3", "4", "5", "6", "7", "8", "9">>[i + 1]
AsStr(c) ==
    CASE c.k = "nan" -> "nan"
      [] c.k = "num" -> Digit(c.n)
      [] c.k = "bool" -> IF c.n = 1 THEN "True" ELSE "False"
      [] OTHER -> c.s

\* the characters of a text
Chars(s) ==
    CASE s = "0" -> <<"0">>
      [] s = "7" -> <<"7">>
      [] s = "8" -> <<"8">>
      [] s = "x" -> <<"x">>
      [] s = "x " -> <<"x", " ">>
      [] s = "y" -> <<"y">>
      [] s = "nan" -> <<"n", "a", "n">>
      [] s = "Unknown" -> <<"U", "n", "k", "n", "o", "w", "n">>
      [] s = "2021-01-05" -> <<"2", "0", "2", "1", "-", "0", "1", "-", "0", "5">>
      [] s = "2021-02-06" -> <<"2", "0", "2", "1", "-", "0", "2", "-", "0", "6">>
      [] OTHER -> <<"?">>

\* the decimal digits of a natural number, as str() writes them
RECURSIVE Digits(_)
Digits(i) == IF i < 10 THEN <<Digit(i)>> ELSE Digits(i \div 10) \o <<Digit(i % 10)>>

\* the order pandas sorts the values of one column in: numbers before texts
CellLt(a, b) ==
    CASE a.k = "num" /\ b.k = "num" -> QLt(Val(a), Val(b))
      [] a.k = "num" -> TRUE
      [] b.k = "num" -> FALSE
      [] a.k = "bool" /\ b.k = "bool" -> a.n < b.n
      [] OTHER -> StrRank(a.s) < StrRank(b.s)

Column(name, dtype, cells) == [name |-> name, dtype |-> dtype, cells |-> cells]
NRows(t) == Len(t.index)
NCols(t) == Len(t.cols)
ColNames(t) == [i \in 1..NCols(t) |-> t.cols[i].name]

\* select_dtypes(include=["number"])
IsNumber(dtype) == dtype \in {"int64", "float64", "Int64", "Float64", "int8"}
\* dtype in ["int64", "float64"]
IsInt64OrFloat64(dtype) == dtype \in {"int64", "float64"}

\* the non-null cells of a column, in row order (Series.dropna())
RECURSIVE DropNa(_)
DropNa(cells) ==
    IF cells = <<>> THEN <<>>
    ELSE IF IsNull(Head(cells)) THEN DropNa(Tail(cells))
    ELSE <<Head(cells)>> \o DropNa(Tail(cells))

\* the rows of a table at the given positions, in that order
TakeRows(t, pos) ==
    [index |-> [i \in 1..Len(pos) |-> t.index[pos[i]]],
     cols |-> [c \in 1..NCols(t) |->
                 [t.cols[c] EXCEPT !.cells = [i \in 1..Len(pos) |-> t.cols[c].cells[pos[i]]]]]]

\* the positions 1..n that satisfy keep, ascending
RECURSIVE Positions(_, _)
Positions(n, keep) ==
    IF n = 0 THEN <<>>
    ELSE Positions(n - 1, keep) \o (IF n \in keep THEN <<n>> ELSE <<>>)

Reverse(s) == [i \in 1..Len(s) |-> s[Len(s) + 1 - i]]

(***************************************************************************)
(* The pandas statistics DataCleaner calls on a column                      *)
(***************************************************************************)
RECURSIVE QSum(_)
QSum(vals) == IF vals = <<>> THEN QInt(0) ELSE QAdd(Head(vals), QSum(Tail(vals)))

\* the non-null numbers of a column
Vals(cells) == LET nn == DropNa(cells) IN [i \in 1..Len(nn) |-> Val(nn[i])]

Sorted(vals) == SortSeq(vals, QLt)

\* Series.mean(): NaN for a column with no value
Mean(cells) ==
    LET v == Vals(cells)
    IN IF v = <<>> THEN NaN ELSE Num(QDiv(QSum(v), QInt(Len(v))))

\* the value at the fractional position pos (counted from 0) of the sorted values
\* v, linear interpolation between the neighbours lo and lo + 1
Interpolate(v, pos, lo) ==
    IF lo + 1 >= Len(v) THEN Num(v[Len(v)])
    ELSE Num(QAdd(v[lo + 1], QMul(QSub(pos, QInt(lo)), QSub(v[lo + 2], v[lo + 1]))))

QuantileAt(v, pos) == Interpolate(v, pos, pos.n \div pos.d)

QuantileSorted(v, q) == IF v = <<>> THEN NaN ELSE QuantileAt(v, QMul(q, QInt(Len(v) - 1)))

\* Series.quantile(q): NaN for a column with no value
Quantile(cells, q) == QuantileSorted(Sorted(Vals(cells)), q)

\* Series.median()
Median(cells) == Quantile(cells, Q(1, 2))

\* sum of the k-th powers of the deviations from the mean
RECURSIVE QPow(_, _)
QPow(a, k) == IF k = 0 THEN QInt(1) ELSE QMul(a, QPow(a, k - 1))
MomentAbout(v, m, k) == QSum([i \in 1..Len(v) |-> QPow(QSub(v[i], m), k)])
Moment(cells, k) == MomentAbout(Vals(cells), Val(Mean(cells)), k)

\* abs(Series.skew()) > 1.  pandas: NaN for fewer than 3 values, 0 when all values
\* are equal, else n*sqrt(n-1)/(n-2) * m3/m2^1.5 with m2, m3 the sums of squared
\* and cubed deviations; compared through the squares
SkewAbove1Of(n, m2, m3) ==
    IF n < 3 \/ m2.n = 0 THEN FALSE
    ELSE QLt(QMul(QInt((n - 2) * (n - 2)), QPow(m2, 3)),
             QMul(QInt(n * n * (n - 1)), QPow(m3, 2)))
SkewAbove1(cells) == SkewAbove1Of(Len(Vals(cells)), Moment(cells, 2), Moment(cells, 3))

Count(cells, c) == Cardinality({i \in 1..Len(cells) : cells[i] = c})

\* Series.mode(): the most frequent non-null values, sorted
Modes(cells) ==
    LET nn == DropNa(cells)
        S == Range(nn)
    IN {c \in S : \A e \in S : Count(nn, e) <= Count(nn, c)}

\* Series.mode().iloc[0] if len(Series.mode()) > 0 else fallback
ModeOr(cells, fallback) ==
    LET best == Modes(cells)
    IN IF best = {} THEN fallback
       ELSE CHOOSE c \in best : \A e \in best : e = c \/ CellLt(c, e)

\* floor of the square root of a natural number
RECURSIVE ISqrtIn(_, _, _)
ISqrtIn(x, lo, hi) ==
    IF lo >= hi THEN lo
    ELSE LET mid == (lo + hi + 1) \div 2
         IN IF mid * mid <= x THEN ISqrtIn(x, mid, hi) ELSE ISqrtIn(x, lo, mid - 1)

\* float sqrt, to the nearest 1/Prec below
QSqrt(a) == Q(ISqrtIn((a.n * Prec * Prec) \div a.d, 0, Prec * 32), Prec)

(***************************************************************************)
(* DataCleaner (services/cleaner.py).  An operation maps the state           *)
(* [df, log, raised] of the cleaner to the state after the call.             *)
(***************************************************************************)
\* one f-string of cleaning_log: the template, the column and method it names, the count
LogEntry(msg, col, arg, n) == [msg |-> msg, col |-> col, arg |-> arg, n |-> n]

St(t, log) == [df |-> t, log |-> log, raised |-> FALSE]

\* Series.fillna(value); filling with NaN changes nothing
FillNa(cells, v) == [i \in 1..Len(cells) |-> IF IsNull(cells[i]) THEN v ELSE cells[i]]

RECURSIVE FFillFrom(_, _)
FFillFrom(cells, prev) ==
    IF cells = <<>> THEN <<>>
    ELSE LET c == IF IsNull(Head(cells)) THEN prev ELSE Head(cells)
         IN <<c>> \o FFillFrom(Tail(cells), c)

\* Series.ffill() and Series.bfill()
FFill(cells) == FFillFrom(cells, NaN)
BFill(cells) == Reverse(FFill(Reverse(cells)))

MapCells(t, F(_)) ==
    [t EXCEPT !.cols = [c \in 1..NCols(t) |-> [t.cols[c] EXCEPT !.cells = F(@)]]]

HasNull(cells) == \E i \in 1..Len(cells) : IsNull(cells[i])

\* DataFrame.dropna(): the rows without any missing value
DropNaRows(t) ==
    TakeRows(t, Positions(NRows(t),
                          {i \in 1..NRows(t) : \A c \in 1..NCols(t) : ~IsNull(t.cols[c].cells[i])}))

\* DataFrame.fillna(0): a datetime column that holds NaT becomes an object column
FillZero(t) ==
    [t EXCEPT !.cols =
        [c \in 1..NCols(t) |->
            IF ~HasNull(t.cols[c].cells) THEN t.cols[c]
            ELSE Column(t.cols[c].name,
                        IF t.cols[c].dtype = "datetime64[ns]" THEN "object" ELSE t.cols[c].dtype,
                        FillNa(t.cols[c].cells, IntCell(0)))]]

NoFill == [v |-> NaN, method |-> "", skip |-> TRUE]
Fill(v, method) == [v |-> v, method |-> method, skip |-> FALSE]

\* lines 56-86: the fill value and the method name for one column with missing values
FillChoice(col, strategy) ==
    LET numeric == IsInt64OrFloat64(col.dtype)
    IN CASE strategy = "auto" ->
              IF numeric
              THEN IF SkewAbove1(col.cells)
                   THEN Fill(Median(col.cells), "median (skewed)")
                   ELSE Fill(Mean(col.cells), "mean")
              ELSE Fill(ModeOr(col.cells, Str("Unknown")), "mode")
         [] strategy = "mean" ->
              IF numeric THEN Fill(Mean(col.cells), "mean")
              ELSE Fill(ModeOr(col.cells, Str("Unknown")), "mode (fallback)")
         [] strategy = "median" ->
              IF numeric THEN Fill(Median(col.cells), "median")
              ELSE Fill(ModeOr(col.cells, Str("Unknown")), "mode (fallback)")
         [] strategy = "mode" -> Fill(ModeOr(col.cells, IntCell(0)), "mode")
         [] OTHER -> NoFill

\* fillna raises TypeError when a text is put into a nullable-integer column
FillRaises(col, v) == col.dtype \in {"Int64", "Float64"} /\ v.k = "str"

\* lines 54-89: the loop over the columns, from column c on
RECURSIVE FillColumns(_, _, _)
FillColumns(st, strategy, c) ==
    IF c > NCols(st.df) THEN st
    ELSE LET col == st.df.cols[c]
             ch == FillChoice(col, strategy)
         IN IF ~HasNull(col.cells) \/ ch.skip THEN FillColumns(st, strategy, c + 1)
            ELSE IF FillRaises(col, ch.v) THEN [st EXCEPT !.raised = TRUE]
            ELSE FillColumns(
                    [st EXCEPT !.df.cols[c].cells = FillNa(col.cells, ch.v),
                               !.log = Append(@, LogEntry("Filled '{column}' using {method}",
                                                          col.name, ch.method, 0))],
                    strategy, c + 1)

clean_missing(st, strategy) ==
    CASE strategy = "drop" ->
            St(DropNaRows(st.df),
               Append(st.log, LogEntry("Dropped rows with missing values", <<>>, "", 0)))
      [] strategy = "ffill" ->
            St(MapCells(st.df, FFill),
               Append(st.log, LogEntry("Forward filled missing values", <<>>, "", 0)))
      [] strategy = "bfill" ->
            St(MapCells(st.df, BFill),
               Append(st.log, LogEntry("Backward filled missing values", <<>>, "", 0)))
      [] strategy = "zero" ->
            St(FillZero(st.df),
               Append(st.log, LogEntry("Filled missing values with 0", <<>>, "", 0)))
      [] OTHER -> FillColumns(st, strategy, 1)

\* pd.to_numeric(errors="coerce") of one cell of an object column
ToNumericCell(c) ==
    CASE c.k = "str" -> ToNumeric(c.s)
      [] c.k = "num" -> c
      [] OTHER -> NaN

\* pd.to_datetime(errors="coerce") of one cell of an object column.  What it makes
\* of a number, or of a text that holds only a number, differs between pandas
\* versions: lenient says that it takes them for dates.
ToDatetime(c, lenient) ==
    CASE c.k = "str" /\ DateLike(c.s) -> Date(c.s)
      [] c.k = "num" /\ lenient -> Date(AsStr(c))
      [] c.k = "str" /\ ToNumeric(c.s).k = "num" /\ lenient -> Date(c.s)
      [] OTHER -> NaN

NotNa(cells) == Len(DropNa(cells))

AllNull(cells) == \A i \in 1..Len(cells) : IsNull(cells[i])

\* notna().sum() / len(col_data) > 0.8
Above80(cells, total) == NotNa(cells) * 10 > 8 * total

\* the dtype pd.to_numeric gives a converted column
NumericDtype(cells) ==
    IF \A i \in 1..Len(cells) : cells[i].k = "num" /\ QIsInt(Val(cells[i]))
    THEN "int64" ELSE "float64"

\* lines 97-124: the body of the loop of fix_dtypes for the column at position c
FixColumn(st, c, lenient) ==
    LET col == st.df.cols[c]
        n == Len(col.cells)
        numeric_converted == [i \in 1..n |-> ToNumericCell(col.cells[i])]
        date_converted == [i \in 1..n |-> ToDatetime(col.cells[i], lenient)]
        Put(dtype, cells) == [st EXCEPT !.df.cols[c] = Column(col.name, dtype, cells)]
        Logged(s, msg) == [s EXCEPT !.log = Append(@, LogEntry(msg, col.name, "", 0))]
    IN CASE AllNull(col.cells) -> st
         [] col.dtype = "object" /\ ~AllNull(col.cells) ->
              IF Above80(numeric_converted, n)
              THEN Logged(Put(NumericDtype(numeric_converted), numeric_converted),
                          "Converted '{column}' to numeric")
              ELSE IF Above80(date_converted, n)
              THEN Logged(Put("datetime64[ns]", date_converted),
                          "Converted '{column}' to datetime")
              ELSE Put("object", [i \in 1..n |-> Str(Strip(AsStr(col.cells[i])))])
         [] col.dtype = "float64" /\ ~AllNull(col.cells) ->
              IF \A i \in 1..n : IsNull(col.cells[i]) \/ QIsInt(Val(col.cells[i]))
              THEN Logged(Put("Int64", col.cells), "Converted '{column}' from float to int")
              ELSE st
         [] OTHER -> st

RECURSIVE FixColumns(_, _, _)
FixColumns(st, c, lenient) ==
    IF c > NCols(st.df) THEN st ELSE FixColumns(FixColumn(st, c, lenient), c + 1, lenient)

fix_dtypes(st, lenient) == FixColumns(st, 1, lenient)

(***************************************************************************)
(* smart_rename_columns.  A column name is a sequence of characters.        *)
(***************************************************************************)
UpperCase ==
    <<"A", "B", "C", "D", "E", "F", "G", "H", "I", "J", "K", "L", "M",
      "N", "O", "P", "Q", "R", "S", "T", "U", "V", "W", "X", "Y", "Z">>
LowerCase ==
    <<"a", "b", "c", "d", "e", "f", "g", "h", "i", "j", "k", "l", "m",
      "n", "o", "p", "q", "r", "s", "t", "u", "v", "w", "x", "y", "z">>
DigitChars == {"0", "1", "2", "3", "4", "5", "6", "7", "8", "9"}

\* str.lower()
LowerChar(ch) ==
    IF ch \in Range(UpperCase)
    THEN LowerCase[CHOOSE i \in 1..Len(UpperCase) : UpperCase[i] = ch]
    ELSE ch
ToLower(s) == [i \in 1..Len(s) |-> LowerChar(s[i])]

\* the class [a-z0-9]
IsAlnum(ch) == ch \in Range(LowerCase) \cup DigitChars

RECURSIVE SkipWhile(_, _)
SkipWhile(s, drop) ==
    IF s # <<>> /\ Head(s) \in drop THEN SkipWhile(Tail(s), drop) ELSE s

\* re.sub(r'[^a-z0-9]+', '_', s)
RECURSIVE SubNonAlnum(_)
SubNonAlnum(s) ==
    IF s = <<>> THEN <<>>
    ELSE IF IsAlnum(Head(s)) THEN <<Head(s)>> \o SubNonAlnum(Tail(s))
    ELSE <<"_">> \o SubNonAlnum(SkipWhile(Tail(s), {ch \in Range(s) : ~IsAlnum(ch)}))

\* str.strip('_')
StripUnderscores(s) == Reverse(SkipWhile(Reverse(SkipWhile(s, {"_"})), {"_"}))

\* re.sub(r'_+', '_', s)
RECURSIVE SubUnderscores(_)
SubUnderscores(s) ==
    IF s = <<>> THEN <<>>
    ELSE IF Head(s) = "_" THEN <<"_">> \o SubUnderscores(SkipWhile(Tail(s), {"_"}))
    ELSE <<Head(s)>> \o SubUnderscores(Tail(s))

\* lines 142-148
SnakeCase(col) == SubUnderscores(StripUnderscores(SubNonAlnum(ToLower(col))))

\* list(self.df.columns).index(col), counted from 0
IndexOf(names, col) == (CHOOSE i \in 1..Len(names) : names[i] = col /\ \A j \in 1..(i - 1) : names[j] # col) - 1

\* a dict as the sequence of its items [key, value] in insertion order
DictValues(dict) == {dict[i].value : i \in 1..Len(dict)}
DictKeys(dict) == {dict[i].key : i \in 1..Len(dict)}
DictGet(dict, key) == dict[CHOOSE i \in 1..Len(dict) : dict[i].key = key].value
DictSet(dict, key, value) ==
    IF key \in DictKeys(dict)
    THEN [i \in 1..Len(dict) |-> IF dict[i].key = key THEN [key |-> key, value |-> value] ELSE dict[i]]
    ELSE Append(dict, [key |-> key, value |-> value])

\* lines 156-159: the first counter from 1 on whose suffixed name is not taken
FreeCounterFirst(new_col, taken, counter) == counter

RECURSIVE FreeCounter(_, _, _)
FreeCounter(new_col, taken, counter) ==
    IF (new_col \o <<"_">> \o Digits(counter)) \in taken
    THEN FreeCounter(new_col, taken, counter + 1)
    ELSE counter

\* lines 140-161: the new name of col, given the names chosen so far
NewName(names, col, new_columns) ==
    LET snake == SnakeCase(col)
        new_col == IF snake = <<>>
                   THEN <<"c", "o", "l", "u", "m", "n", "_">> \o Digits(IndexOf(names, col))
                   ELSE snake
    IN IF new_col \in DictValues(new_columns)
       THEN new_col \o <<"_">> \o Digits(FreeCounter(new_col, DictValues(new_columns), 1))
       ELSE new_col

\* lines 139-163: the loop over the columns, from column c on
RECURSIVE NewColumns(_, _, _)
NewColumns(names, c, new_columns) ==
    IF c > Len(names) THEN new_columns
    ELSE NewColumns(names, c + 1,
                    DictSet(new_columns, names[c], NewName(names, names[c], new_columns)))

\* DataFrame.rename(columns=mapping)
Rename(t, mapping) ==
    [t EXCEPT !.cols = [c \in 1..NCols(t) |->
                           [t.cols[c] EXCEPT !.name = DictGet(mapping, t.cols[c].name)]]]

\* returns the state after the call and the new column_mapping
smart_rename_columns(st) ==
    LET new_columns == NewColumns(ColNames(st.df), 1, <<>>)
        suggestions == {i \in 1..Len(new_columns) : new_columns[i].key # new_columns[i].value}
    IN [st |-> St(Rename(st.df, new_columns),
                  IF suggestions # {}
                  THEN Append(st.log, LogEntry("Renamed {n} columns to snake_case", <<>>, "",
                                               Cardinality(suggestions)))
                  ELSE st.log),
        column_mapping |-> new_columns]

\* lines 186-207: the body of the loop of auto_parse_dates for the column at position c
ParseColumn(st, c, lenient) ==
    LET col == st.df.cols[c]
        sample == DropNa(col.cells)
        date_like == Cardinality({i \in 1..Len(sample) : DateLike(AsStr(sample[i]))})
        parsed == [i \in 1..Len(col.cells) |-> ToDatetime(col.cells[i], lenient)]
    IN IF col.dtype = "object" /\ Len(sample) > 0 /\ 2 * date_like > Len(sample)
          /\ NotNa(parsed) * 10 > 7 * NRows(st.df)
       THEN [st EXCEPT !.df.cols[c] = Column(col.name, "datetime64[ns]", parsed),
                       !.log = Append(@, LogEntry("Auto-parsed '{col}' as datetime",
                                                  col.name, "", 0))]
       ELSE st

RECURSIVE ParseColumns(_, _, _)
ParseColumns(st, c, lenient) ==
    IF c > NCols(st.df) THEN st ELSE ParseColumns(ParseColumn(st, c, lenient), c + 1, lenient)

auto_parse_dates(st, lenient) == ParseColumns(st, 1, lenient)

(***************************************************************************)
(* Outliers and duplicates                                                   *)
(***************************************************************************)
\* the rows on or outside the fences
OutsideOrOn(cells, lower, upper) ==
    {i \in 1..Len(cells) :
        ~IsNull(cells[i]) /\ (QLe(Val(cells[i]), lower) \/ QLe(upper, Val(cells[i])))}

\* lines 226-232: the row positions the IQR rule flags in one column
Outside(cells, lower, upper) ==
    {i \in 1..Len(cells) :
        ~IsNull(cells[i]) /\ (QLt(Val(cells[i]), lower) \/ QLt(upper, Val(cells[i])))}
IqrFence(cells, Q1, IQR, Q3, threshold) ==
    Outside(cells, QSub(Q1, QMul(threshold, IQR)), QAdd(Q3, QMul(threshold, IQR)))
IqrQuartiles(cells, Q1, Q3, threshold) == IqrFence(cells, Q1, QSub(Q3, Q1), Q3, threshold)
IqrOutliers(cells, threshold) ==
    IqrQuartiles(cells, Val(Quantile(cells, Q(1, 4))), Val(Quantile(cells, Q(3, 4))), threshold)

\* lines 235-237: abs(stats.zscore(col_data)) > threshold, the population standard
\* deviation in the denominator; with zero deviation the score is NaN and no
\* comparison holds.  Compared through the squares.
ZscoreAbove(cells, m, var, threshold) ==
    {i \in 1..Len(cells) :
        /\ ~IsNull(cells[i])
        /\ QLt(QMul(QMul(threshold, threshold), var), QPow(QSub(Val(cells[i]), m), 2))}
ZscoreOutliers(cells, threshold) ==
    ZscoreAbove(cells, Val(Mean(cells)),
                QDiv(Moment(cells, 2), QInt(Len(Vals(cells)))), threshold)

\* stats.zscore raises on the object array a nullable-integer column turns into
ZscoreRaises(t) ==
    \E c \in 1..NCols(t) :
        t.cols[c].dtype \in {"Int64", "Float64"} /\ ~AllNull(t.cols[c].cells)

\* detect_outliers: column position -> flagged row positions, for the numeric
\* columns that have a flagged row
Flagged(col, method, threshold) ==
    IF ~IsNumber(col.dtype) \/ AllNull(col.cells) THEN {}
    ELSE CASE method = "iqr" -> IqrOutliers(col.cells, threshold)
           [] method = "zscore" -> ZscoreOutliers(col.cells, threshold)
           [] OTHER -> {}
detect_outliers(t, method, threshold) ==
    [c \in {k \in 1..NCols(t) : Flagged(t.cols[k], method, threshold) # {}} |->
        Flagged(t.cols[c], method, threshold)]

NoColumns == <<>>

\* columns: NoColumns for None, else a sequence of column names
\* lines 256-261: the rows flagged in the columns asked for
AllOutlierIndices(t, outliers, columns) ==
    UNION {outliers[c] : c \in {k \in DOMAIN outliers :
                                   columns = NoColumns \/ t.cols[k].name \in Range(columns)}}

\* DataFrame.drop(index=rows)
DropRows(t, rows) == TakeRows(t, Positions(NRows(t), (1..NRows(t)) \ rows))

\* a removal that keeps quiet about the rows it dropped
RemovedUnlogged(st, after, msg, arg) == St(after, st.log)

\* lines 263-268 and 290-295: the table after the removal, and a log entry when the
\* row count went down
Removed(st, after, msg, arg) ==
    St(after,
       IF NRows(st.df) - NRows(after) > 0
       THEN Append(st.log, LogEntry(msg, <<>>, arg, NRows(st.df) - NRows(after)))
       ELSE st.log)

remove_outliers(st, method, threshold, columns) ==
    IF method = "zscore" /\ ZscoreRaises(st.df) THEN [st EXCEPT !.raised = TRUE]
    ELSE Removed(st,
                 DropRows(st.df,
                          AllOutlierIndices(st.df, detect_outliers(st.df, method, threshold),
                                            columns)),
                 "Removed {rows_removed} outlier rows using {method} method", method)

\* the cells of row i in the columns of subset (None: all columns)
RowKey(t, i, subset) ==
    [c \in {k \in 1..NCols(t) : subset = NoColumns \/ t.cols[k].name \in Range(subset)} |->
        t.cols[c].cells[i]]

\* DataFrame.drop_duplicates(subset, keep): the row positions that stay
SameRow(t, i, j, subset) == RowKey(t, i, subset) = RowKey(t, j, subset)
KeptRows(t, subset, keep) ==
    CASE keep = "first" ->
            {i \in 1..NRows(t) : \A j \in 1..(i - 1) : ~SameRow(t, i, j, subset)}
      [] keep = "last" ->
            {i \in 1..NRows(t) : \A j \in (i + 1)..NRows(t) : ~SameRow(t, i, j, subset)}
      [] OTHER ->
            {i \in 1..NRows(t) : \A j \in (1..NRows(t)) \ {i} : ~SameRow(t, i, j, subset)}

remove_duplicates(st, subset, keep) ==
    Removed(st, TakeRows(st.df, Positions(NRows(st.df), KeptRows(st.df, subset, keep))),
            "Removed {rows_removed} duplicate rows", "")

(***************************************************************************)
(* normalize and smart_encode                                                *)
(***************************************************************************)
\* the dtype of a numeric column after a true division
FloatDtype(dtype) == IF dtype \in {"Int64", "Float64"} THEN "Float64" ELSE "float64"

\* (self.df[col] - a) / b; missing cells stay missing
Scale(col, a, b) ==
    Column(col.name, FloatDtype(col.dtype),
           [i \in 1..Len(col.cells) |->
               IF IsNull(col.cells[i]) THEN NaN
               ELSE Num(QDiv(QSub(Val(col.cells[i]), a), b))])

AllNaN(col) == Column(col.name, FloatDtype(col.dtype), [i \in 1..Len(col.cells) |-> NaN])

\* lines 310-332: the body of the loop of normalize for one column
\* Series.std(): the sample standard deviation of the n values
Std(cells, n) == QSqrt(QDiv(Moment(cells, 2), QInt(n - 1)))

\* lines 317-318, 323-324, 331-332
ScaleIf(col, a, b) == IF b.n # 0 THEN Scale(col, a, b) ELSE col

MinMax(col, v) == ScaleIf(col, v[1], QSub(v[Len(v)], v[1]))

NormalizeColumn(col, method) ==
    CASE AllNull(col.cells) -> col
      [] ~AllNull(col.cells) /\ method = "minmax" -> MinMax(col, Sorted(Vals(col.cells)))
      [] ~AllNull(col.cells) /\ method = "zscore" ->
           IF NotNa(col.cells) = 1 THEN AllNaN(col)
           ELSE ScaleIf(col, Val(Mean(col.cells)), Std(col.cells, NotNa(col.cells)))
      [] ~AllNull(col.cells) /\ method = "robust" ->
           ScaleIf(col, Val(Median(col.cells)),
                   QSub(Val(Quantile(col.cells, Q(3, 4))), Val(Quantile(col.cells, Q(1, 4)))))
      [] OTHER -> col

\* columns: NoColumns for None, else a sequence of column names
normalize(st, method, columns) ==
    St([st.df EXCEPT !.cols =
           [c \in 1..NCols(st.df) |->
               IF (IF columns = NoColumns THEN IsNumber(st.df.cols[c].dtype)
                   ELSE st.df.cols[c].name \in Range(columns))
               THEN NormalizeColumn(st.df.cols[c], method)
               ELSE st.df.cols[c]]],
       Append(st.log, LogEntry("Normalized columns using {method} method", <<>>, method, 0)))

\* the values of a set of cells in sorted order
RECURSIVE SortCells(_)
SortCells(S) ==
    IF S = {} THEN <<>>
    ELSE LET m == CHOOSE c \in S : \A e \in S : e = c \/ CellLt(c, e)
         IN <<m>> \o SortCells(S \ {m})

\* the categories of a column: its distinct non-null values, sorted
Categories(cells) == SortCells(Range(DropNa(cells)))

\* astype("category").cat.codes: the position of the value among the categories
\* counted from 0, -1 for a missing value
CatCodes(col, cats) ==
    Column(col.name, "int8",
           [i \in 1..Len(col.cells) |->
               IF IsNull(col.cells[i]) THEN IntCell(-1)
               ELSE IntCell((CHOOSE k \in 1..Len(cats) : cats[k] = col.cells[i]) - 1)])
LabelEncode(col) == CatCodes(col, Categories(col.cells))

\* pd.get_dummies(self.df[col], prefix=col, drop_first=True)
DummiesOf(col, cats) ==
    [k \in 1..(IF cats = <<>> THEN 0 ELSE Len(cats) - 1) |->
        Column(col.name \o <<"_">> \o Chars(AsStr(cats[k + 1])), "bool",
               [i \in 1..Len(col.cells) |-> Bool(col.cells[i] = cats[k + 1])])]
Dummies(col) == DummiesOf(col, Categories(col.cells))

\* pd.concat([self.df.drop(columns=[col]), dummies], axis=1)
OneHot(t, name) ==
    [t EXCEPT !.cols = SelectSeq(t.cols, LAMBDA x : x.name # name)
                           \o Dummies(t.cols[CHOOSE k \in 1..NCols(t) : t.cols[k].name = name])]

Labelled(t, name) ==
    [t EXCEPT !.cols = [k \in 1..NCols(t) |->
                           IF t.cols[k].name = name THEN LabelEncode(t.cols[k]) ELSE t.cols[k]]]

ColumnNamed(t, name) == t.cols[CHOOSE j \in 1..NCols(t) : t.cols[j].name = name]

\* Series.nunique()
NUnique(cells) == Cardinality(Range(DropNa(cells)))

EncodeOneHot(st, col) ==
    St(OneHot(st.df, col), Append(st.log, LogEntry("One-hot encoded '{col}'", col, "", 0)))

\* an encoding that puts its entry at the head of the log
EncodeLabelPrepend(st, col) ==
    St(Labelled(st.df, col), <<LogEntry("Label encoded '{col}'", col, "", 0)>> \o st.log)

EncodeLabel(st, col) ==
    St(Labelled(st.df, col), Append(st.log, LogEntry("Label encoded '{col}'", col, "", 0)))

\* lines 346-364: the body of the loop of smart_encode for the column named col
EncodeColumn(st, col, method, max_categories) ==
    CASE method = "auto" ->
            IF NUnique(ColumnNamed(st.df, col).cells) <= max_categories
            THEN EncodeOneHot(st, col) ELSE EncodeLabel(st, col)
      [] method = "label" -> EncodeLabel(st, col)
      [] method = "onehot" -> EncodeOneHot(st, col)
      [] OTHER -> st

\* lines 345-364: the loop over categorical_cols, from position k on
RECURSIVE EncodeColumns(_, _, _, _, _)
EncodeColumns(st, names, k, method, max_categories) ==
    IF k > Len(names) THEN st
    ELSE EncodeColumns(EncodeColumn(st, names[k], method, max_categories),
                       names, k + 1, method, max_categories)

smart_encode(st, method, max_categories) ==
    LET categorical_cols ==
            SelectSeq(ColNames(st.df),
                      LAMBDA name : \E c \in 1..NCols(st.df) :
                                        st.df.cols[c].name = name /\ st.df.cols[c].dtype = "object")
    IN EncodeColumns(st, categorical_cols, 1, method, max_categories)

(***************************************************************************)
(* A DataCleaner over one of a few small tables, and the calls made on it    *)
(***************************************************************************)
MaxOps == 2

Name(s) == Chars(s)
Cells(kind, xs) ==
    [i \in 1..Len(xs) |->
        IF xs[i] = "" THEN NaN
        ELSE IF kind = "num" THEN ToNumeric(xs[i]) ELSE Str(xs[i])]

AgeName == <<"A", "g", "e">>
PriceName == <<"U", "n", "i", "t", " ", "P", "r", "i", "c", "e">>

\* a numeric and a text column with missing values; names that collide in snake case
People ==
    [index |-> <<0, 1, 2>>,
     cols |-> <<Column(AgeName, "float64", Cells("num", <<"7", "", "8">>)),
                Column(ToLower(AgeName), "object", Cells("str", <<"x", "", "x ">>))>>]

\* a skewed column with an outlier; a text column of which 80% are numbers
Prices ==
    [index |-> <<0, 1, 2, 3, 4>>,
     cols |-> <<Column(PriceName, "float64", Cells("num", <<"0", "0", "0", "8", "">>)),
                Column(<<"$">>, "object", Cells("str", <<"7", "8", "7", "7", "x">>))>>]

\* a column of dates and a column without any value
Dates ==
    [index |-> <<0, 1, 2>>,
     cols |-> <<Column(<<"d">>, "object",
                       Cells("str", <<"2021-01-05", "2021-02-06", "2021-01-05">>)),
                Column(<<"k">>, "float64", Cells("num", <<"", "", "">>))>>]

\* nothing missing: a constant column and a text column
Clean ==
    [index |-> <<0, 1, 2>>,
     cols |-> <<Column(<<"a">>, "int64", Cells("num", <<"7", "7", "7">>)),
                Column(<<"b">>, "object", Cells("str", <<"x", "y", "x">>))>>]

Tables == {People, Prices, Dates, Clean}

Strategies == {"auto", "mean", "median", "mode", "drop", "ffill", "bfill", "zero"}

\* DataCleaner.__init__
InitCleaner ==
    /\ RouterInit({"free"}, {0})
    /\ JsonIdle
    /\ ServiceIdle
    /\ df \in Tables
    /\ original_df = df
    /\ cleaning_log = <<>>
    /\ column_mapping = <<>>
    /\ last = [op |-> "__init__", arg |-> "", raised |-> FALSE]
    /\ nops = 0
    /\ corr = <<>>

Self == St(df, cleaning_log)

\* the state of the cleaner after a call that returned (or raised) res
Called(op, arg, res) ==
    /\ nops < MaxOps
    /\ df' = res.df
    /\ cleaning_log' = res.log
    /\ last' = [op |-> op, arg |-> arg, raised |-> res.raised]
    /\ nops' = nops + 1

CleanMissing(strategy) ==
    /\ Called("clean_missing", strategy, clean_missing(Self, strategy))
    /\ UNCHANGED <<original_df, column_mapping, corr, notCleaner>>

FixDtypes(lenient) ==
    /\ Called("fix_dtypes", "", fix_dtypes(Self, lenient))
    /\ UNCHANGED <<original_df, column_mapping, corr, notCleaner>>

SmartRenameColumns ==
    /\ Called("smart_rename_columns", "", smart_rename_columns(Self).st)
    /\ column_mapping' = smart_rename_columns(Self).column_mapping
    /\ UNCHANGED <<original_df, corr, notCleaner>>

AutoParseDates(lenient) ==
    /\ Called("auto_parse_dates", "", auto_parse_dates(Self, lenient))
    /\ UNCHANGED <<original_df, column_mapping, corr, notCleaner>>

RemoveOutliers(method, threshold, columns) ==
    /\ Called("remove_outliers", method, remove_outliers(Self, method, threshold, columns))
    /\ UNCHANGED <<original_df, column_mapping, corr, notCleaner>>

RemoveDuplicates(subset, keep) ==
    /\ Called("remove_duplicates", keep, remove_duplicates(Self, subset, keep))
    /\ UNCHANGED <<original_df, column_mapping, corr, notCleaner>>

Normalize(method) ==
    /\ Called("normalize", method, normalize(Self, method, NoColumns))
    /\ UNCHANGED <<original_df, column_mapping, corr, notCleaner>>

SmartEncode(method, max_categories) ==
    /\ Called("smart_encode", method, smart_encode(Self, method, max_categories))
    /\ UNCHANGED <<original_df, column_mapping, corr, notCleaner>>

NextCleaner ==
    \/ \E strategy \in Strategies \cup {"knn"} : CleanMissing(strategy)
    \/ \E lenient \in BOOLEAN : FixDtypes(lenient)
    \/ SmartRenameColumns
    \/ \E lenient \in BOOLEAN : AutoParseDates(lenient)
    \/ \E m \in {"iqr", "zscore", "isolation_forest"} :
          RemoveOutliers(m, IF m = "iqr" THEN Q(3, 2) ELSE QInt(1), NoColumns)
    \/ \E subset \in {NoColumns, <<df.cols[1].name>>}, keep \in {"first", "last", "False"} :
          RemoveDuplicates(subset, keep)
    \/ \E m \in {"minmax", "zscore", "robust", "l2"} : Normalize(m)
    \/ \E m \in {"auto", "label", "onehot"}, max_categories \in {10, 1} :
          SmartEncode(m, max_categories)

SpecCleaner == InitCleaner /\ [][NextCleaner]_vars

(***************************************************************************)
(* Claims about the DataCleaner                                              *)
(***************************************************************************)
\* C7: clean_missing called a second time with the same strategy, on the table the
\* first call imputed, appends no cleaning-log entry and leaves the table as it is,
\* for every strategy.
C7_ImputationIdempotent ==
    [][\A s \in Strategies :
          (/\ last.op = "clean_missing" /\ last.arg = s /\ ~last.raised
           /\ last'.op = "clean_missing" /\ last'.arg = s /\ nops' = nops + 1)
          => (df' = df /\ cleaning_log' = cleaning_log)]_vars

EqualLengths(t) == \A c \in 1..NCols(t) : Len(t.cols[c].cells) = NRows(t)

\* the entry says that rows were dropped, and how many where it gives a count
ReportsRowDrop(entry, rows_removed) ==
    \/ entry.msg = "Dropped rows with missing values"
    \/ /\ entry.msg \in {"Removed {rows_removed} outlier rows using {method} method",
                        "Removed {rows_removed} duplicate rows"}
       /\ entry.n = rows_removed

\* C8: after any sequence of DataCleaner operations all columns of the table have
\* the same length, and an operation that lowers the row count appends, in the same
\* call, a cleaning-log entry that reports the row drop.
C8_EqualLengthsLoggedDrops ==
    /\ []EqualLengths(df)
    /\ [][NRows(df') < NRows(df) =>
            /\ Len(cleaning_log') = Len(cleaning_log) + 1
            /\ SubSeq(cleaning_log', 1, Len(cleaning_log)) = cleaning_log
            /\ ReportsRowDrop(cleaning_log'[Len(cleaning_log')], NRows(df) - NRows(df'))]_vars

C8_Witness ==
    /\ nops = MaxOps
    /\ last.op = "remove_outliers"
    /\ NCols(df) >= 2 /\ NRows(df) < NRows(original_df) - 1
    /\ cleaning_log[Len(cleaning_log)].msg =
           "Removed {rows_removed} outlier rows using {method} method"

IsPrefix(s, t) == Len(s) <= Len(t) /\ SubSeq(t, 1, Len(s)) = s

\* C9: the cleaning log is append-only and in execution order: the log as it was
\* before a DataCleaner operation is a prefix of the log after it.
C9_LogAppendOnly == [][IsPrefix(cleaning_log, cleaning_log')]_vars

C9_Witness ==
    /\ nops = MaxOps
    /\ Len(cleaning_log) > MaxOps
    /\ cleaning_log[1].msg = "Filled '{column}' using {method}"
    /\ cleaning_log[Len(cleaning_log)].msg = "One-hot encoded '{col}'"

(***************************************************************************)
(* The correlation matrix (KuyaDataService.correlation_report and            *)
(* EDAService.generate_correlation): DataFrame.corr() over the numeric        *)
(* columns, every coefficient rounded to CorrDecimals decimals.  The          *)
(* coefficients are computed in exact integer arithmetic.                     *)
(***************************************************************************)
CorrDecimals == 4

RECURSIVE Pow10(_)
Pow10(k) == IF k = 0 THEN 1 ELSE 10 * Pow10(k - 1)

\* floor(p * 10^digits / q), one decimal digit at a time
RECURSIVE LongDiv(_, _, _)
LongDiv(p, q, digits) ==
    IF digits = 0 THEN p \div q
    ELSE (p \div q) * Pow10(digits) + LongDiv(10 * (p % q), q, digits - 1)

LCM(a, b) == (a * b) \div GCD(a, b)

RECURSIVE Sum(_)
Sum(xs) == IF xs = <<>> THEN 0 ELSE Head(xs) + Sum(Tail(xs))

\* round(r, decimals) for r = sign * sqrt(p / q), 0 <= p <= q
RoundRoot(sign, p, q, decimals) ==
    Num(Reduce(sign * ((ISqrtIn(LongDiv(4 * p, q, 2 * decimals), 0, 2 * Pow10(decimals)) + 1) \div 2),
               Pow10(decimals)))

\* covxy / sqrt(ssqdm_x * ssqdm_y) from the sums over the n complete pairs of the
\* integers xs, ys; NaN when the divisor is 0
PearsonOf(n, sx, sy, sxx, syy, sxy, decimals) ==
    IF (n * sxx - sx * sx) * (n * syy - sy * sy) = 0 THEN NaN
    ELSE RoundRoot(IF n * sxy - sx * sy < 0 THEN -1 ELSE 1,
                   (n * sxy - sx * sy) * (n * sxy - sx * sy),
                   (n * sxx - sx * sx) * (n * syy - sy * sy), decimals)

PearsonInts(xs, ys, decimals) ==
    PearsonOf(Len(xs), Sum(xs), Sum(ys),
              Sum([i \in 1..Len(xs) |-> xs[i] * xs[i]]),
              Sum([i \in 1..Len(xs) |-> ys[i] * ys[i]]),
              Sum([i \in 1..Len(xs) |-> xs[i] * ys[i]]), decimals)

RECURSIVE LcmDen(_)
LcmDen(cells) == IF cells = <<>> THEN 1 ELSE LCM(Head(cells).d, LcmDen(Tail(cells)))

Scaled(cells, by) == [i \in 1..Len(cells) |-> cells[i].n * (by \div cells[i].d)]

\* the cells of x at the rows where both x and y hold a value
Paired(x, y) ==
    [i \in 1..Len(Positions(Len(x), {j \in 1..Len(x) : ~IsNull(x[j]) /\ ~IsNull(y[j])})) |->
        x[Positions(Len(x), {j \in 1..Len(x) : ~IsNull(x[j]) /\ ~IsNull(y[j])})[i]]]

\* one entry of DataFrame.corr(): NaN without a complete pair (min_periods = 1)
Pearson(x, y, decimals) ==
    IF Paired(x, y) = <<>> THEN NaN
    ELSE PearsonInts(Scaled(Paired(x, y), LcmDen(Paired(x, y))),
                     Scaled(Paired(y, x), LcmDen(Paired(y, x))), decimals)

\* select_dtypes(include=["number"])
NumericDf(t) == SelectSeq(t.cols, LAMBDA c : IsNumber(c.dtype))

\* the entry for the columns at positions a, b: the lower triangle is computed
\* and mirrored
CorrEntry(cols, a, b, decimals) ==
    IF b <= a THEN Pearson(cols[a].cells, cols[b].cells, decimals)
    ELSE Pearson(cols[b].cells, cols[a].cells, decimals)

\* {col: {other: round(float(corr.loc[col, other]), 4) ...} ...}
CorrDict(cols, decimals) ==
    [col \in {cols[a].name : a \in 1..Len(cols)} |->
        [other \in {cols[b].name : b \in 1..Len(cols)} |->
            CorrEntry(cols, CHOOSE a \in 1..Len(cols) : cols[a].name = col,
                      CHOOSE b \in 1..Len(cols) : cols[b].name = other, decimals)]]

EmptyDict == <<>>

correlation_report(kdf) ==
    IF Len(NumericDf(kdf)) < 2 THEN EmptyDict ELSE CorrDict(NumericDf(kdf), CorrDecimals)

\* DataFrame.corr raises ValueError for a method it does not know
generate_correlation(t, method) ==
    IF NRows(t) = 0 \/ Len(NumericDf(t)) < 2 THEN EmptyDict
    ELSE IF method = "pearson" THEN CorrDict(NumericDf(t), CorrDecimals)
    ELSE EmptyDict

\* the columns the tables handed to the correlation are made of
CorrColumns ==
    {[dtype |-> "int64", cells |-> <<IntCell(1), IntCell(2), IntCell(3)>>],
     [dtype |-> "int64", cells |-> <<IntCell(3), IntCell(1), IntCell(2)>>],
     [dtype |-> "float64", cells |-> <<Num(Q(1, 2)), NaN, IntCell(2)>>],
     [dtype |-> "int64", cells |-> <<IntCell(7), IntCell(7), IntCell(7)>>],
     [dtype |-> "float64", cells |-> <<NaN, NaN, NaN>>],
     [dtype |-> "float64", cells |-> <<IntCell(0), IntCell(8), NaN>>],
     [dtype |-> "object", cells |-> <<Str("x"), Str("y"), Str("x")>>]}

CorrTables ==
    {[index |-> <<0, 1, 2>>,
      cols |-> <<Column(<<"a">>, a.dtype, a.cells), Column(<<"b">>, b.dtype, b.cells)>>] :
        a \in CorrColumns, b \in CorrColumns}
    \cup
    {[index |-> <<0, 1, 2>>,
      cols |-> <<Column(<<"a">>, a.dtype, a.cells), Column(<<"b">>, b.dtype, b.cells),
                 Column(<<"c">>, c.dtype, c.cells)>>] :
        a \in CorrColumns, b \in CorrColumns, c \in CorrColumns}

NoCorr == [by |-> "", method |-> "", matrix |-> EmptyDict]

InitCorr ==
    /\ RouterInit({"free"}, {0})
    /\ JsonIdle
    /\ ServiceIdle
    /\ df \in CorrTables
    /\ original_df = df
    /\ cleaning_log = <<>>
    /\ column_mapping = <<>>
    /\ last = [op |-> "", arg |-> "", raised |-> FALSE]
    /\ nops = 0
    /\ corr = NoCorr

CorrelationReport ==
    /\ corr = NoCorr
    /\ corr' = [by |-> "correlation_report", method |-> "pearson",
                matrix |-> correlation_report(df)]
    /\ UNCHANGED <<df, original_df, cleaning_log, column_mapping, last, nops, notCleaner>>

GenerateCorrelation(method) ==
    /\ corr = NoCorr
    /\ corr' = [by |-> "generate_correlation", method |-> method,
                matrix |-> generate_correlation(df, method)]
    /\ UNCHANGED <<df, original_df, cleaning_log, column_mapping, last, nops, notCleaner>>

NextCorr ==
    \/ CorrelationReport
    \/ \E method \in {"pearson", "cosine"} : GenerateCorrelation(method)

SpecCorr == InitCorr /\ [][NextCorr]_vars

\* == between two floats: NaN equals nothing
FloatEq(x, y) == x.k = "num" /\ y.k = "num" /\ x = y

\* C10: a correlation matrix returned for a table with at least two numeric columns
\* is symmetric with a unit diagonal: corr[a][b] = corr[b][a] and corr[a][a] = 1.0
\* for all columns a, b of the matrix, constant columns included.
C10_SymmetricUnitDiagonal ==
    (corr.by # "" /\ Len(NumericDf(df)) >= 2) =>
        \A a \in DOMAIN corr.matrix, b \in DOMAIN corr.matrix :
            /\ FloatEq(corr.matrix[a][b], corr.matrix[b][a])
            /\ corr.matrix[a][a] = IntCell(1)

(***************************************************************************)
(* Data quality score (services/eda.py calculate_data_quality_score,        *)
(* services/kuya_service.py quality_report).  The score depends on a table  *)
(* only through counts, so a table is given here by them:                   *)
(*   [rows, duplicates, cols], cols a sequence of                           *)
(*   [dtype, missing, numeric_text, outliers]                               *)
(* numeric_text: pd.to_numeric(errors="raise") accepts the (object) column; *)
(* outliers: the cells beyond the 1.5 IQR fences of the (numeric) column.   *)
(* Scores are exact fractions [n, d] of a percent; reported values are      *)
(* integers counting hundredths, as round(x, 2) gives them.                 *)
(***************************************************************************)
Frac(n, d) == LET g == GCD(Abs(n), d) IN [n |-> n \div g, d |-> d \div g]
FracAdd(a, b) ==
    LET m == LCM(a.d, b.d) IN Frac(a.n * (m \div a.d) + b.n * (m \div b.d), m)
FracDiv(a, k) == Frac(a.n, a.d * k)
FracGe(a, i) == a.n >= i * a.d

RECURSIVE FracSum(_)
FracSum(xs) == IF xs = <<>> THEN Frac(0, 1) ELSE FracAdd(xs[1], FracSum(Tail(xs)))

\* np.mean(xs)
FracMean(xs) == FracDiv(FracSum(xs), Len(xs))

\* round(x, 2) in hundredths; a value half way between two hundredths goes where
\* its binary float lies, up or down
RoundTo(a, scale, up) ==
    LET h == (scale * a.n) \div a.d
        r == scale * a.n - h * a.d
    IN  IF 2 * r > a.d \/ (2 * r = a.d /\ up) THEN h + 1 ELSE h

Round2(a, up) == RoundTo(a, 100, up)
\* round(x, 1) in tenths
Round1(a, up) == RoundTo(a, 10, up)

\* (1 - part / whole) * 100 if whole > 0 else 0
PercentLeft(part, whole) ==
    IF whole > 0 THEN Frac(100 * (whole - part), whole) ELSE Frac(0, 1)

MissingCells(t) == Sum([c \in 1..Len(t.cols) |-> t.cols[c].missing])

\* the if / elif chain over the unrounded score
Grade(score) ==
    IF FracGe(score, 90) THEN [grade |-> "A", status |-> "Excellent"]
    ELSE IF FracGe(score, 80) THEN [grade |-> "B", status |-> "Good"]
    ELSE IF FracGe(score, 70) THEN [grade |-> "C", status |-> "Fair"]
    ELSE IF FracGe(score, 60) THEN [grade |-> "D", status |-> "Poor"]
    ELSE [grade |-> "F", status |-> "Critical"]


QualityResult(score, up) ==
    [overall_score |-> Round2(score, up),
     grade |-> Grade(score).grade,
     status |-> Grade(score).status]

\* one entry of consistency_scores
ConsistencyScore(col) ==
    IF col.dtype = "object" /\ col.numeric_text THEN Frac(50, 1) ELSE Frac(100, 1)

Consistency(t) ==
    IF t.cols = <<>> THEN Frac(100, 1)
    ELSE FracMean([c \in 1..Len(t.cols) |-> ConsistencyScore(t.cols[c])])

\* one entry of outlier_percentages
OutlierScore(col, rows) ==
    IF rows > 0 THEN Frac(100 * (rows - col.outliers), rows) ELSE Frac(100, 1)

Validity(t) ==
    LET numeric_cols == SelectSeq(t.cols, LAMBDA col : IsNumber(col.dtype))
    IN  IF numeric_cols = <<>> THEN Frac(100, 1)
        ELSE FracMean([c \in 1..Len(numeric_cols) |-> OutlierScore(numeric_cols[c], t.rows)])

calculate_data_quality_score(t, up) ==
    QualityResult(
        FracMean(<<PercentLeft(MissingCells(t), t.rows * Len(t.cols)),
                   PercentLeft(t.duplicates, t.rows),
                   Consistency(t),
                   Validity(t)>>),
        up)

\* the fallback of KuyaDataService.quality_report
quality_report(t, up) ==
    QualityResult(
        FracDiv(FracAdd(PercentLeft(MissingCells(t), t.rows * Len(t.cols)),
                        PercentLeft(t.duplicates, t.rows)), 2),
        up)

\* row counts, and per-column counts of missing cells and of outliers
QRows == {0, 1, 4, 2502}
QMissing == {0, 1, 4, 1001, 2502}
QOutliers == {0, 1}

QColumns(rows) ==
    {[dtype |-> d, missing |-> m, numeric_text |-> nt, outliers |-> o] :
        d \in {"object", "float64"}, m \in {x \in QMissing : x <= rows},
        nt \in BOOLEAN, o \in QOutliers}

\* counts that some table has: only an object column parses as numbers, only a
\* numeric column has outliers (fewer than a quarter of its values), and rows
\* missing in every column duplicate each other
QFeasibleColumn(col, rows) ==
    /\ col.numeric_text => col.dtype = "object"
    /\ col.outliers > 0 => col.dtype = "float64"
    /\ 4 * col.outliers <= rows - col.missing

QFeasible(t) ==
    /\ \A c \in 1..Len(t.cols) : QFeasibleColumn(t.cols[c], t.rows)
    /\ t.duplicates <= (IF t.rows = 0 THEN 0 ELSE t.rows - 1)
    /\ t.cols # <<>> =>
          t.duplicates >= MissingCells(t) - (Len(t.cols) - 1) * t.rows - 1
    /\ t.cols = <<>> => t.rows = 0

QualityTables ==
    {t \in [rows : QRows, duplicates : {0, 1},
            cols : UNION {[1..k -> UNION {QColumns(r) : r \in QRows}] : k \in 0..2}] :
        QFeasible(t)}

InitQuality ==
    /\ RouterInit({"free"}, {0})
    /\ JsonIdle
    /\ CleanerIdle
    /\ data \in QualityTables
    /\ result = <<>>
    /\ called = NotCalled

CalculateDataQualityScore(up) ==
    /\ called = NotCalled
    /\ called' = [op |-> "calculate_data_quality_score", up |-> up]
    /\ result' = calculate_data_quality_score(data, up)
    /\ UNCHANGED <<data, notService>>

QualityReport(up) ==
    /\ called = NotCalled
    /\ called' = [op |-> "quality_report", up |-> up]
    /\ result' = quality_report(data, up)
    /\ UNCHANGED <<data, notService>>

NextQuality ==
    \/ \E up \in BOOLEAN : CalculateDataQualityScore(up)
    \/ \E up \in BOOLEAN : QualityReport(up)

SpecQuality == InitQuality /\ [][NextQuality]_vars

\* the grade the fixed thresholds assign to a reported score (in hundredths)
GradeOfScore(h) == Grade(Frac(h, 100)).grade

\* C11: every reported overall score lies in [0, 100] and the reported grade is
\* the grade the thresholds (>= 90 A, >= 80 B, >= 70 C, >= 60 D, else F) assign
\* to that reported score
C11_ScoreInRangeGradeOfScore ==
    called # NotCalled =>
        /\ result.overall_score >= 0 /\ result.overall_score <= 100 * 100
        /\ result.grade = GradeOfScore(result.overall_score)

(***************************************************************************)
(* Column profiling (services/kuya_service.py smart_column_analysis and     *)
(* feature_engineering_suggestions).  The profile of a column depends on    *)
(* the column only through what pandas reports of it:                       *)
(*   [name, dtype, unique_count (nunique()), missing_count, skew (|skew()|  *)
(*    in tenths, 0 where it is NaN), outlier_count, raises (profiling the   *)
(*    column throws)]                                                      *)
(* and on the table through its row count.                                  *)
(***************************************************************************)
IdentifierRows == 10
CategoricalMax == 20

\* an identifier test that takes tables of exactly the threshold size as well
IsIdentifierFrom10(col, rows) == col.unique_count = rows /\ rows >= IdentifierRows

\* line 371: unique_count == len(self.kdf) and len(self.kdf) > 10
IsIdentifier(col, rows) == col.unique_count = rows /\ rows > IdentifierRows

\* lines 371-418: col_type, importance and action of one column
Classify(col, rows) ==
    IF IsIdentifier(col, rows)
    THEN [type |-> "identifier", importance |-> "low", action |-> "drop"]
    ELSE IF col.unique_count = 1
    THEN [type |-> "constant", importance |-> "none", action |-> "drop"]
    ELSE IF col.dtype \in {"datetime64[ns]", "datetime64"}
    THEN [type |-> "datetime", importance |-> "medium", action |-> "extract_features"]
    ELSE IF col.dtype = "object"
    THEN (IF col.unique_count <= CategoricalMax
          THEN [type |-> "categorical", importance |-> "high", action |-> "encode"]
          ELSE [type |-> "text", importance |-> "medium", action |-> "vectorize_or_drop"])
    ELSE IF col.dtype \in {"int64", "float64", "int32", "float32"}
    THEN [type |-> "numeric", importance |-> "high",
          action |-> IF col.skew > 20 THEN "log_transform"
                     ELSE IF col.skew > 10 THEN "normalize" ELSE "keep"]
    ELSE [type |-> "unknown", importance |-> "low", action |-> "review"]

\* (missing_count / len(self.kdf)) * 100 if len(self.kdf) > 0 else 0
MissingPct(col, rows) ==
    IF rows > 0 THEN Frac(100 * col.missing_count, rows) ELSE Frac(0, 1)

\* a score whose missing-value penalty has no cap
ColumnQualityUncapped(col, rows, col_type, up) ==
    LET pct == MissingPct(col, rows)
        forced == IF col_type = "identifier" THEN Frac(10, 1)
                  ELSE IF col_type = "constant" THEN Frac(0, 1)
                  ELSE FracAdd(Frac(100, 1), Frac(-pct.n, pct.d))
        scored == IF col_type = "numeric" /\ 20 * col.outlier_count > rows
                  THEN FracAdd(forced, Frac(-15, 1)) ELSE forced
    IN  IF scored.n < 0 THEN 0 ELSE Round1(scored, up)

\* lines 421-449 and 460: the quality score of one column, in tenths
ColumnQuality(col, rows, col_type, up) ==
    LET pct == MissingPct(col, rows)
        afterMissing == IF pct.n > 0
                        THEN (IF FracGe(pct, 50) THEN Frac(50, 1)
                              ELSE FracAdd(Frac(100, 1), Frac(-pct.n, pct.d)))
                        ELSE Frac(100, 1)
        forced == IF col_type = "identifier" THEN Frac(10, 1)
                  ELSE IF col_type = "constant" THEN Frac(0, 1)
                  ELSE afterMissing
        scored == IF col_type = "numeric" /\ 20 * col.outlier_count > rows
                  THEN FracAdd(forced, Frac(-15, 1)) ELSE forced
    IN  IF scored.n < 0 THEN 0 ELSE Round1(scored, up)

NoInfo == [type |-> "", importance |-> "", action |-> "", unique_values |-> 0,
           missing |-> 0, missing_pct |-> 0, outliers |-> 0, quality_score |-> 0]

\* lines 451-462: the entry of a column that was profiled
Profiled(col, rows, up) ==
    LET c == Classify(col, rows)
    IN  [error |-> <<>>,
         info |-> [type |-> c.type, importance |-> c.importance, action |-> c.action,
                   unique_values |-> col.unique_count, missing |-> col.missing_count,
                   missing_pct |-> Round2(MissingPct(col, rows), up),
                   outliers |-> IF c.type = "numeric" THEN col.outlier_count ELSE 0,
                   quality_score |-> ColumnQuality(col, rows, c.type, up)]]

\* an entry for a failed column that does not say so
FailedUnmarked(col) == [error |-> <<>>, info |-> NoInfo]

\* line 464: the entry of a column whose profiling raised
Failed(col) == [error |-> <<"str(e)">>, info |-> NoInfo]

\* the dict analysis, as the sequence of its items in insertion order
smart_column_analysis(t, up) ==
    [c \in 1..Len(t.cols) |->
        [col |-> t.cols[c].name,
         entry |-> IF t.cols[c].raises THEN Failed(t.cols[c])
                   ELSE Profiled(t.cols[c], t.rows, up)]]

Suggestion(col, action, priority) == [column |-> col, action |-> action, priority |-> priority]

\* lines 584-632: the suggestion made from the action of one entry
ActionSuggestion(col, info) ==
    CASE info.action = "drop" ->
            <<Suggestion(col, "DROP",
                         IF info.type \in {"constant", "identifier"} THEN "high" ELSE "medium")>>
      [] info.action = "encode" -> <<Suggestion(col, "ENCODE", "high")>>
      [] info.action = "log_transform" -> <<Suggestion(col, "LOG TRANSFORM", "high")>>
      [] info.action = "normalize" -> <<Suggestion(col, "NORMALIZE", "medium")>>
      [] info.action = "extract_features" -> <<Suggestion(col, "EXTRACT DATETIME", "high")>>
      [] OTHER -> <<>>

\* lines 635-654: the suggestion made from the missing values of one entry
MissingSuggestion(col, info) ==
    IF info.missing_pct > 50 * 100 THEN <<Suggestion(col, "DROP COLUMN", "high")>>
    ELSE IF info.missing_pct > 5 * 100 THEN <<Suggestion(col, "IMPUTE", "medium")>>
    ELSE <<>>

\* lines 575-654: the suggestions made from one item of column_analysis
SuggestionsOf(item) ==
    IF item.entry.error # <<>> THEN <<>>
    ELSE ActionSuggestion(item.col, item.entry.info)
            \o MissingSuggestion(item.col, item.entry.info)

RECURSIVE Suggestions(_, _)
Suggestions(column_analysis, k) ==
    IF k > Len(column_analysis) THEN <<>>
    ELSE SuggestionsOf(column_analysis[k]) \o Suggestions(column_analysis, k + 1)

\* list.sort(key = priority_order[...]): a stable sort on the priority
SortByPriority(suggestions) ==
    SelectSeq(suggestions, LAMBDA x : x.priority = "high")
        \o SelectSeq(suggestions, LAMBDA x : x.priority = "medium")
        \o SelectSeq(suggestions, LAMBDA x : x.priority \notin {"high", "medium"})

feature_engineering_suggestions(t, up) ==
    SortByPriority(Suggestions(smart_column_analysis(t, up), 1))

\* the dtypes pandas gives the columns of a file it has read
Dtypes == {"int64", "float64", "object", "bool", "datetime64[ns]"}
PRows == {0, 10, 11, 50}
PUnique == {0, 1, 2, 10, 11, 20, 21, 50}
PMissing == {0, 1, 5, 30}

\* counts that some column of `rows` rows has
PFeasible(col, rows) ==
    /\ col.missing_count <= rows
    /\ col.unique_count <= rows - col.missing_count
    /\ col.unique_count = 0 <=> rows = col.missing_count
    /\ col.dtype = "bool" => col.unique_count <= 2 /\ col.missing_count = 0
    /\ col.dtype = "int64" => col.missing_count = 0
    /\ col.dtype \notin {"int64", "float64"} => col.skew = 0 /\ col.outlier_count = 0
    /\ col.skew > 0 => col.unique_count >= 2 /\ rows - col.missing_count >= 3
    /\ col.outlier_count > 0 => col.unique_count >= 2
    /\ 4 * col.outlier_count <= rows - col.missing_count

PColumns(names, rows) ==
    {col \in [name : names, dtype : Dtypes, unique_count : PUnique, missing_count : PMissing,
              skew : {0, 15, 25}, outlier_count : {0, 1, 3}, raises : BOOLEAN] :
        PFeasible(col, rows)}

\* a second column next to the one under study
Companions(rows) ==
    {col \in PColumns({"v"}, rows) :
        /\ col.dtype \in {"float64", "object"}
        /\ col.unique_count \in {1, 2, rows}
        /\ col.skew = 0 /\ col.outlier_count = 0 /\ col.missing_count \in {0, 30}}

ProfileTables ==
    UNION {{[rows |-> r, cols |-> <<c>>] : c \in PColumns({"id"}, r)} : r \in PRows}
    \cup UNION {{[rows |-> r, cols |-> <<c, d>>] :
                    c \in {x \in PColumns({"id"}, r) : x.skew = 0 /\ x.outlier_count = 0},
                    d \in Companions(r)} : r \in PRows}
    \cup {[rows |-> 0, cols |-> <<>>]}

InitProfile ==
    /\ RouterInit({"free"}, {0})
    /\ JsonIdle
    /\ CleanerIdle
    /\ data \in ProfileTables
    /\ result = <<>>
    /\ called = NotCalled

SmartColumnAnalysis(up) ==
    /\ called = NotCalled
    /\ called' = [op |-> "smart_column_analysis", up |-> up]
    /\ result' = smart_column_analysis(data, up)
    /\ UNCHANGED <<data, notService>>

FeatureEngineeringSuggestions(up) ==
    /\ called = NotCalled
    /\ called' = [op |-> "feature_engineering_suggestions", up |-> up]
    /\ result' = feature_engineering_suggestions(data, up)
    /\ UNCHANGED <<data, notService>>

NextProfile ==
    \/ \E up \in BOOLEAN : SmartColumnAnalysis(up)
    \/ \E up \in BOOLEAN : FeatureEngineeringSuggestions(up)

SpecProfile == InitProfile /\ [][NextProfile]_vars

\* the storage type of a dtype
StorageKind(dtype) ==
    CASE dtype \in {"int64", "float64"} -> "numeric"
      [] dtype = "datetime64[ns]" -> "datetime"
      [] dtype = "object" -> "text"
      [] OTHER -> "other"

\* the tag the precedence rule gives
TagByPrecedence(col, rows) ==
    IF col.unique_count = rows /\ rows > 10 THEN "identifier"
    ELSE IF col.unique_count = 1 THEN "constant"
    ELSE CASE StorageKind(col.dtype) = "numeric" -> "numeric"
           [] StorageKind(col.dtype) = "datetime" -> "datetime"
           [] StorageKind(col.dtype) = "text" ->
                 IF col.unique_count <= 20 THEN "categorical" ELSE "text"
           [] OTHER -> "unknown"

\* C12: every profiled column carries the one tag the fixed precedence gives it
\* (identifier when unique_count = row_count and row_count > 10, else constant
\* when unique_count = 1, else by storage type), and an identifier column is
\* recommended for dropping
C12_TagByPrecedence ==
    called.op = "smart_column_analysis" =>
        \A c \in 1..Len(data.cols) :
            ~data.cols[c].raises =>
                /\ result[c].entry.info.type = TagByPrecedence(data.cols[c], data.rows)
                /\ (data.cols[c].unique_count = data.rows /\ data.rows > 10) =>
                      /\ result[c].entry.info.type = "identifier"
                      /\ result[c].entry.info.action = "drop"

C12_Witness ==
    /\ called.op = "smart_column_analysis"
    /\ data.rows = 50 /\ Len(data.cols) = 2
    /\ data.cols[1].unique_count = 50 /\ ~data.cols[1].raises
    /\ data.cols[1].dtype = "float64"
    /\ result[1].entry.info.type = "identifier"
    /\ result[2].entry.info.type = "categorical"

\* the table with no column failing
NoneRaises(t) == [t EXCEPT !.cols = [c \in 1..Len(t.cols) |-> [t.cols[c] EXCEPT !.raises = FALSE]]]

\* C13: when profiling a column raises, smart_column_analysis still returns one
\* entry per column, the failing column's entry carries an error marker, the
\* other entries are what they are without the failure, and
\* feature_engineering_suggestions makes no suggestion from the failed column
C13_PartialFailureTolerant ==
    /\ called.op = "smart_column_analysis" =>
          /\ Len(result) = Len(data.cols)
          /\ \A c \in 1..Len(data.cols) :
                /\ result[c].col = data.cols[c].name
                /\ data.cols[c].raises => result[c].entry.error # <<>>
                /\ ~data.cols[c].raises =>
                      result[c] = smart_column_analysis(NoneRaises(data), called.up)[c]
    /\ called.op = "feature_engineering_suggestions" =>
          \A c \in 1..Len(data.cols), k \in 1..Len(result) :
              data.cols[c].raises => result[k].column # data.cols[c].name

C13_Witness ==
    /\ called.op = "feature_engineering_suggestions"
    /\ Len(data.cols) = 2
    /\ data.cols[1].raises /\ data.cols[1].missing_count = 30
    /\ ~data.cols[2].raises
    /\ Len(result) = 2

(***************************************************************************)
(* Tier gating (utils/intelligence/main.py and utils/intelligence.py, each   *)
(* with a class DataIntelligence).  The result of analyze() is given by the  *)
(* set of its keys.                                                         *)
(***************************************************************************)
TIER_FREE == 0
TIER_STARTER == 1
TIER_PRO == 2
TIER_ENTERPRISE == 3

\* str.lower() on the tier names that occur
TierLower(tier) == IF tier = "PRO" THEN "pro" ELSE tier

\* TIER_MAP.get(tier.lower(), TIER_FREE)
TierLevel(tier) ==
    CASE TierLower(tier) = "free" -> TIER_FREE
      [] TierLower(tier) = "starter" -> TIER_STARTER
      [] TierLower(tier) = "pro" -> TIER_PRO
      [] TierLower(tier) = "enterprise" -> TIER_ENTERPRISE
      [] OTHER -> TIER_FREE

FreeFields ==
    {"why_this_matters", "data_leakage_basic", "class_imbalance", "outlier_flag",
     "executive_summary"}
StarterFields ==
    {"confidence_scores", "tradeoff_analysis", "baseline_model", "metric_sensitivity",
     "assumption_checker", "outlier_strategy", "high_impact_features"}
ProFields ==
    {"model_impact_confidence", "model_preprocessing_advice", "scaling_impact",
     "encoding_recommendation", "feature_importance_preview", "feature_interactions",
     "train_serve_consistency", "preprocessing_pipeline", "saved_artifacts_info",
     "reproducibility_lock", "risky_features"}
EnterpriseFields ==
    {"deployment_readiness", "drift_risk", "schema_alerts", "versioned_pipeline",
     "inference_cost"}

\* utils/intelligence/main.py: DataIntelligence(df, tier).analyze()
analyze(tier) ==
    LET tier_level == TierLevel(tier)
    IN  (IF tier_level >= TIER_FREE THEN FreeFields ELSE {})
        \cup (IF tier_level >= TIER_STARTER THEN StarterFields ELSE {})
        \cup (IF tier_level >= TIER_PRO THEN ProFields ELSE {})
        \cup (IF tier_level >= TIER_ENTERPRISE THEN EnterpriseFields ELSE {})

\* utils/intelligence.py: DataIntelligence(df, tier).analyze(), which returns
\* early on the exact tier names
intelligence_analyze(tier) ==
    IF tier = "free" THEN FreeFields
    ELSE IF tier = "starter" THEN FreeFields \cup StarterFields
    ELSE IF tier = "pro" THEN FreeFields \cup StarterFields \cup ProFields
    ELSE FreeFields \cup StarterFields \cup ProFields \cup EnterpriseFields

MaxCalls == 2
Tiers == {"free", "starter", "pro", "enterprise", "PRO", "legacy", ""}

InitTiers ==
    /\ RouterInit({"free"}, {0})
    /\ JsonIdle
    /\ CleanerIdle
    /\ data = <<>>
    /\ result = <<>>
    /\ called = NotCalled

\* result: the calls made so far, each with its tier and the keys it returned
Analyze(tier) ==
    /\ Len(result) < MaxCalls
    /\ result' = Append(result, [by |-> "intelligence/main.py", tier |-> tier,
                                 fields |-> analyze(tier)])
    /\ called' = [op |-> "analyze", up |-> FALSE]
    /\ UNCHANGED <<data, notService>>

IntelligenceAnalyze(tier) ==
    /\ Len(result) < MaxCalls
    /\ result' = Append(result, [by |-> "intelligence.py", tier |-> tier,
                                 fields |-> intelligence_analyze(tier)])
    /\ called' = [op |-> "analyze", up |-> FALSE]
    /\ UNCHANGED <<data, notService>>

NextTiers ==
    \/ \E tier \in Tiers : Analyze(tier)
    \/ \E tier \in Tiers : IntelligenceAnalyze(tier)

SpecTiers == InitTiers /\ [][NextTiers]_vars

\* free < starter < pro < enterprise, in any letter case; every other name ranks
\* as free
TierRank(tier) ==
    CASE tier \in {"starter"} -> 1
      [] tier \in {"pro", "PRO"} -> 2
      [] tier \in {"enterprise"} -> 3
      [] OTHER -> 0

\* C14: tier gating is monotone: the fields analyze() returns for a tier are a
\* subset of those it returns for any tier ranked at least as high
C14_TierMonotone ==
    \A i \in 1..Len(result), j \in 1..Len(result) :
        (result[i].by = result[j].by /\ TierRank(result[i].tier) <= TierRank(result[j].tier))
            => result[i].fields \subseteq result[j].fields

(***************************************************************************)
(* Graph generation (services/kuya_service.py generate_all_graphs).  A      *)
(* table is given by the names of its numeric and of its text columns, in   *)
(* column order.  Whether a rendering yields an image is not decided here:  *)
(* `fails` names the kinds of rendering and the columns for which the       *)
(* plotting library raises or draws nothing.                                *)
(***************************************************************************)
HistogramCap == 5
BarCap == 3
BoxCap == 5
PairplotCap == 5
ScatterCap == 6

NoCol == <<"", 0>>
Title(text, x, y) == <<text, x, y>>
Graph(type, title) == [type |-> type, title |-> title]
\* seen_titles: the titles of the graphs appended so far
SeenTitles(graphs) == {graphs[i].title : i \in 1..Len(graphs)}

\* corr_heatmap, plot_histogram, quick_plot, pairplot: an image, or None when the
\* library call raised
Renders(kind, cols, fails) == ~(kind \in fails.kinds /\ cols \cap fails.cols # {})

\* columns[:n]
FirstN(cols, n) == SubSeq(cols, 1, Min(Len(cols), n))

\* lines 957-968, 973-984, 989-1000: one graph per column, from column k on
RECURSIVE ColumnGraphs(_, _, _, _, _, _, _)
ColumnGraphs(graphs, cols, k, type, text, kind, fails) ==
    IF k > Len(cols) THEN graphs
    ELSE ColumnGraphs(
            IF /\ Title(text, cols[k], NoCol) \notin SeenTitles(graphs)
               /\ Renders(kind, {cols[k]}, fails)
            THEN Append(graphs, Graph(type, Title(text, cols[k], NoCol)))
            ELSE graphs,
            cols, k + 1, type, text, kind, fails)

\* lines 1037-1052: quick_plot("scatter"), else the manual matplotlib scatter
ScatterRenders(x_col, y_col, fails) ==
    \/ Renders("scatter", {x_col, y_col}, fails)
    \/ Renders("manual_scatter", {x_col, y_col}, fails)

\* a limit test that lets one more scatter plot through
ScatterCapReachedLate(count) == count > ScatterCap

\* if count >= 6: break
ScatterCapReached(count) == count >= ScatterCap

\* lines 1022-1062: the two nested loops, from the pair (i, j) on
RECURSIVE ScatterGraphs(_, _, _, _, _, _)
ScatterGraphs(graphs, cols, i, j, count, fails) ==
    IF ScatterCapReached(count) \/ i > Len(cols) THEN graphs
    ELSE IF j > Len(cols) THEN ScatterGraphs(graphs, cols, i + 1, i + 2, count, fails)
    ELSE IF /\ Title("vs", cols[i], cols[j]) \notin SeenTitles(graphs)
            /\ ScatterRenders(cols[i], cols[j], fails)
    THEN ScatterGraphs(Append(graphs, Graph("scatter", Title("vs", cols[i], cols[j]))),
                       cols, i, j + 1, count + 1, fails)
    ELSE ScatterGraphs(graphs, cols, i, j + 1, count, fails)

Wanted(selected_features, names) ==
    RunAll(selected_features) \/ names \cap Range(selected_features) # {}

\* lines 943-952
WithHeatmap(graphs, t, selected_features, fails) ==
    IF /\ Wanted(selected_features, {"correlation"})
       /\ Renders("correlation", Range(t.numeric), fails)
    THEN Append(graphs, Graph("correlation", Title("Correlation Heatmap", NoCol, NoCol)))
    ELSE graphs

\* lines 955-968
WithHistograms(graphs, t, selected_features, fails) ==
    IF Wanted(selected_features, {"distribution"})
    THEN ColumnGraphs(graphs, FirstN(t.numeric, HistogramCap), 1, "histogram",
                      "Distribution of", "histogram", fails)
    ELSE graphs

\* lines 971-984
WithBars(graphs, t, selected_features, fails) ==
    IF Wanted(selected_features, {"bar"})
    THEN ColumnGraphs(graphs, FirstN(t.text, BarCap), 1, "bar", "Top Values in", "bar", fails)
    ELSE graphs

\* lines 987-1000
WithBoxPlots(graphs, t, selected_features, fails) ==
    IF Wanted(selected_features, {"boxplot", "outliers"})
    THEN ColumnGraphs(graphs, FirstN(t.numeric, BoxCap), 1, "boxplot", "Box Plot of", "box",
                      fails)
    ELSE graphs

\* lines 1003-1015
WithPairplot(graphs, t, selected_features, fails) ==
    IF /\ Wanted(selected_features, {"pairplot"})
       /\ Len(t.numeric) >= 2
       /\ Renders("pairplot", Range(FirstN(t.numeric, PairplotCap)), fails)
    THEN Append(graphs, Graph("pairplot", Title("Pair Plot", NoCol, NoCol)))
    ELSE graphs

\* lines 1018-1062
WithScatters(graphs, t, selected_features, fails) ==
    IF Wanted(selected_features, {"scatter"})
    THEN ScatterGraphs(graphs, t.numeric, 1, 2, 0, fails)
    ELSE graphs

generate_all_graphs(t, selected_features, fails) ==
    WithScatters(
        WithPairplot(
            WithBoxPlots(
                WithBars(
                    WithHistograms(
                        WithHeatmap(<<>>, t, selected_features, fails),
                        t, selected_features, fails),
                    t, selected_features, fails),
                t, selected_features, fails),
            t, selected_features, fails),
        t, selected_features, fails)

MaxNumeric == 6
MaxText == 4

GraphTables ==
    {[numeric |-> [i \in 1..n |-> <<"n", i>>], text |-> [i \in 1..c |-> <<"c", i>>]] :
        n \in 0..MaxNumeric, c \in 0..MaxText}

GraphFeatures ==
    {<<"all">>, <<"magic">>, <<>>, <<"distribution">>, <<"bar", "scatter">>, <<"boxplot">>,
     <<"outliers", "scatter">>, <<"correlation", "pairplot">>}

Failures ==
    {[kinds |-> k, cols |-> c] :
        k \in {{}, {"scatter"}, {"scatter", "manual_scatter"}, {"histogram", "box"},
               {"correlation", "pairplot", "bar", "scatter"}},
        c \in {{<<"n", 1>>}, {<<"n", 2>>, <<"n", 4>>, <<"c", 1>>},
               {<<"n", i>> : i \in 1..MaxNumeric} \cup {<<"c", i>> : i \in 1..MaxText}}}

InitGraphs ==
    /\ RouterInit({"free"}, {0})
    /\ JsonIdle
    /\ CleanerIdle
    /\ data \in GraphTables
    /\ result = <<>>
    /\ called = NotCalled

GenerateAllGraphs(selected_features, fails) ==
    /\ called = NotCalled
    /\ called' = [op |-> "generate_all_graphs", up |-> FALSE,
                  selected_features |-> selected_features, fails |-> fails]
    /\ result' = generate_all_graphs(data, selected_features, fails)
    /\ UNCHANGED <<data, notService>>

NextGraphs ==
    \E selected_features \in GraphFeatures, fails \in Failures :
        GenerateAllGraphs(selected_features, fails)

SpecGraphs == InitGraphs /\ [][NextGraphs]_vars

NumberOf(graphs, type) == Cardinality({i \in 1..Len(graphs) : graphs[i].type = type})

\* C15: generate_all_graphs returns at most 5 distribution charts, 5 box plots,
\* 3 categorical bar charts and 6 scatter plots, however many columns there are
\* and whichever renderings fail
C15_GraphCaps ==
    called.op = "generate_all_graphs" =>
        /\ NumberOf(result, "histogram") <= 5
        /\ NumberOf(result, "boxplot") <= 5
        /\ NumberOf(result, "bar") <= 3
        /\ NumberOf(result, "scatter") <= 6

C15_Witness ==
    /\ called.op = "generate_all_graphs"
    /\ Len(data.numeric) > 5 /\ Len(data.text) > 3
    /\ called.fails.kinds = {"scatter", "manual_scatter"}
    /\ called.fails.cols = {<<"n", 1>>}
    /\ NumberOf(result, "histogram") = 5
    /\ NumberOf(result, "boxplot") = 5
    /\ NumberOf(result, "bar") = 3
    /\ NumberOf(result, "scatter") = 6

(***************************************************************************)
(* Strong-correlation findings of the insights (services/kuya_service.py    *)
(* _generate_insights_list, services/eda.py generate_insights).  A table is  *)
(* given by its numeric columns in column order and by the correlation of    *)
(* each pair of them, in hundredths.                                        *)
(***************************************************************************)
StrongAbove == 80
EdaStrongAbove == 70
TopFindings == 3

InsightNames == <<"a", "b", "c">>
\* the order of Python's < on the column names
NameRank(name) == CHOOSE i \in 1..Len(InsightNames) : InsightNames[i] = name
NameLt(x, y) == NameRank(x) < NameRank(y)

\* corr_mat.loc[x, y]
CorrOf(t, x, y) == t.r[{x, y}]

Finding(c1, c2, val) == [c1 |-> c1, c2 |-> c2, val |-> val]

\* lines 235-239: the pairs (i, j), i < j, in column order, that correlate strongly
RECURSIVE StrongPairs(_, _, _)
StrongPairs(t, i, j) ==
    IF i > Len(t.numeric_cols) THEN <<>>
    ELSE IF j > Len(t.numeric_cols) THEN StrongPairs(t, i + 1, i + 2)
    ELSE (IF Abs(CorrOf(t, t.numeric_cols[i], t.numeric_cols[j])) > StrongAbove
          THEN <<Finding(t.numeric_cols[i], t.numeric_cols[j],
                         CorrOf(t, t.numeric_cols[i], t.numeric_cols[j]))>>
          ELSE <<>>)
         \o StrongPairs(t, i, j + 1)

\* list.sort(key=lambda x: abs(x[2]), reverse=True): a stable sort, so pairs of
\* equal strength stay in the order they were found in
RECURSIVE SortByStrength(_)
SortByStrength(pairs) ==
    IF pairs = <<>> THEN <<>>
    ELSE LET k == CHOOSE k \in 1..Len(pairs) :
                     /\ \A m \in 1..Len(pairs) : Abs(pairs[m].val) <= Abs(pairs[k].val)
                     /\ \A m \in 1..(k - 1) : Abs(pairs[m].val) < Abs(pairs[k].val)
         IN  <<pairs[k]>>
                \o SortByStrength(SubSeq(pairs, 1, k - 1) \o SubSeq(pairs, k + 1, Len(pairs)))

\* lines 229-246 of _generate_insights_list: the findings, in the order listed
generate_insights_list(t) ==
    IF Len(t.numeric_cols) >= 2
    THEN FirstN(SortByStrength(StrongPairs(t, 1, 2)), TopFindings)
    ELSE <<>>

\* lines 360-364 of generate_insights: the dict of dicts is walked in column
\* order, and a pair is taken where col1 < col2
RECURSIVE StrongCorrs(_, _, _)
StrongCorrs(t, i, j) ==
    IF i > Len(t.numeric_cols) THEN <<>>
    ELSE IF j > Len(t.numeric_cols) THEN StrongCorrs(t, i + 1, 1)
    ELSE (IF /\ NameLt(t.numeric_cols[i], t.numeric_cols[j])
             /\ Abs(CorrOf(t, t.numeric_cols[i], t.numeric_cols[j])) > EdaStrongAbove
          THEN <<Finding(t.numeric_cols[i], t.numeric_cols[j],
                         CorrOf(t, t.numeric_cols[i], t.numeric_cols[j]))>>
          ELSE <<>>)
         \o StrongCorrs(t, i, j + 1)

\* lines 357-369 of generate_insights: the findings, in the order listed
generate_insights(t) == FirstN(StrongCorrs(t, 1, 1), TopFindings)

ColumnOrders(S) ==
    {p \in [1..Cardinality(S) -> S] : \A i, j \in 1..Cardinality(S) : p[i] = p[j] => i = j}

CorrValues == {0, 75, 85, -85, 95}

InsightTables ==
    {[numeric_cols |-> p, r |-> r] :
        p \in ColumnOrders(Range(InsightNames)),
        r \in [{{x, y} : x, y \in Range(InsightNames)} ->  CorrValues \cup {100}]}

\* values that are the correlations of some table: a column correlates fully
\* with itself, and the matrix of the three columns has no negative determinant
InsightFeasible(t) ==
    /\ \A x, y \in Range(InsightNames) : (CorrOf(t, x, y) = 100) <=> (x = y)
    /\ 100 * 100 * 100
          + 2 * CorrOf(t, "a", "b") * CorrOf(t, "a", "c") * CorrOf(t, "b", "c")
          - 100 * (CorrOf(t, "a", "b") * CorrOf(t, "a", "b")
                   + CorrOf(t, "a", "c") * CorrOf(t, "a", "c")
                   + CorrOf(t, "b", "c") * CorrOf(t, "b", "c")) >= 0

InitInsights ==
    /\ RouterInit({"free"}, {0})
    /\ JsonIdle
    /\ CleanerIdle
    /\ data \in {t \in InsightTables : InsightFeasible(t)}
    /\ result = <<>>
    /\ called = NotCalled

GenerateInsightsList ==
    /\ called = NotCalled
    /\ called' = [op |-> "_generate_insights_list", up |-> FALSE]
    /\ result' = generate_insights_list(data)
    /\ UNCHANGED <<data, notService>>

GenerateInsights ==
    /\ called = NotCalled
    /\ called' = [op |-> "generate_insights", up |-> FALSE]
    /\ result' = generate_insights(data)
    /\ UNCHANGED <<data, notService>>

NextInsights == GenerateInsightsList \/ GenerateInsights

SpecInsights == InitInsights /\ [][NextInsights]_vars

\* stronger first; of two equally strong findings the one whose column names
\* come first
ListedBefore(f, g) ==
    \/ Abs(f.val) > Abs(g.val)
    \/ /\ Abs(f.val) = Abs(g.val)
       /\ \/ NameLt(f.c1, g.c1)
          \/ f.c1 = g.c1 /\ (NameLt(f.c2, g.c2) \/ f.c2 = g.c2)

\* C16: the strong-correlation findings of the insights are listed by absolute
\* correlation descending, ties broken by column name
C16_FindingsOrdered ==
    called # NotCalled =>
        \A i, j \in 1..Len(result) : i < j => ListedBefore(result[i], result[j])

\* C17: every Cleaning Engine operation that changes a cell value, a dtype, a
\* column name or a row of the table appends at least one cleaning-log entry in
\* the same call
C17_ChangeLogged ==
    [][df' # df => Len(cleaning_log') > Len(cleaning_log)]_vars

\* C18: a Cleaning Engine operation that returns with the table unchanged appends
\* nothing to the cleaning log
C18_UnchangedUnlogged ==
    [][(nops' = nops + 1 /\ ~last'.raised /\ df' = df)
          => cleaning_log' = cleaning_log]_vars

(***************************************************************************)
(* smart_rename_columns on tables with all kinds of column names.           *)
(***************************************************************************)
MaxRenameCols == 3

NamePool ==
    {<<"A">>, <<"a">>, <<"a", "_", "1">>, <<"$">>, <<" ", "x", "_", "_", "Y", " ">>,
     <<"c", "o", "l", "u", "m", "n", "_", "0">>, PriceName, <<"A", "!">>}

\* one row of text under pairwise distinct column names
RenameNames ==
    {n \in UNION {[1..k -> NamePool] : k \in 1..MaxRenameCols} :
        \A i, j \in 1..Len(n) : n[i] = n[j] => i = j}

RenameTables ==
    {[index |-> <<0>>,
      cols |-> [c \in 1..Len(names) |-> Column(names[c], "object", <<Str("x")>>)]] :
        names \in RenameNames}

InitRename ==
    /\ RouterInit({"free"}, {0})
    /\ JsonIdle
    /\ ServiceIdle
    /\ df \in RenameTables
    /\ original_df = df
    /\ cleaning_log = <<>>
    /\ column_mapping = <<>>
    /\ last = [op |-> "__init__", arg |-> "", raised |-> FALSE]
    /\ nops = 0
    /\ corr = <<>>

NextRename == SmartRenameColumns

SpecRename == InitRename /\ [][NextRename]_vars

Distinct(names) == \A i, j \in 1..Len(names) : names[i] = names[j] => i = j

\* non-empty, only lowercase letters, digits and single underscores, no
\* underscore at either end
CleanName(name) ==
    /\ name # <<>>
    /\ \A i \in 1..Len(name) : name[i] \in Range(LowerCase) \cup DigitChars \cup {"_"}
    /\ \A i \in 1..(Len(name) - 1) : ~(name[i] = "_" /\ name[i + 1] = "_")
    /\ name[1] # "_" /\ name[Len(name)] # "_"

\* C19: on a table with pairwise distinct column names smart_rename_columns
\* gives pairwise distinct new names, keeps the number and order of the columns,
\* and every new name is a clean snake-case name
C19_RenameDistinctClean ==
    [][(last'.op = "smart_rename_columns" /\ nops' = nops + 1 /\ Distinct(ColNames(df)))
          => /\ Distinct(ColNames(df'))
             /\ NCols(df') = NCols(df)
             /\ \A c \in 1..NCols(df) :
                   /\ df'.cols[c].cells = df.cols[c].cells
                   /\ df'.cols[c].name = DictGet(column_mapping', df.cols[c].name)
                   /\ CleanName(df'.cols[c].name)]_vars

C19_Witness ==
    /\ last.op = "smart_rename_columns" /\ nops = 1
    /\ ColNames(original_df) = <<<<"a", "_", "1">>, <<"a">>, <<"A">>>>
    /\ ColNames(df) = <<<<"a", "_", "1">>, <<"a">>, <<"a", "_", "2">>>>

\* C20: column_mapping maps each column name of the originally loaded table to
\* the name that column now has, also after smart_rename_columns has been called
\* more than once
C20_MappingRetained ==
    nops > 0 =>
        \A c \in 1..NCols(original_df) :
            /\ original_df.cols[c].name \in DictKeys(column_mapping)
            /\ DictGet(column_mapping, original_df.cols[c].name) = df.cols[c].name

(***************************************************************************)
(* Claims about the thresholds of fix_dtypes and of the outlier detection   *)
(***************************************************************************)
\* the number of cells that pd.to_numeric turns into a number
Converting(cells) == Cardinality({i \in 1..Len(cells) : ToNumericCell(cells[i]).k = "num"})

\* C21: fix_dtypes makes a text column numeric exactly when at least 80% of its
\* non-null values convert to a number
C21_PromoteAt80OfNonNull ==
    [][(last'.op = "fix_dtypes" /\ nops' = nops + 1)
          => \A c \in 1..NCols(df) :
                (df.cols[c].dtype = "object" /\ ~AllNull(df.cols[c].cells))
                   => (IsNumber(df'.cols[c].dtype)
                         <=> Converting(df.cols[c].cells) * 5
                                >= 4 * Len(DropNa(df.cols[c].cells)))]_vars

(***************************************************************************)
(* The IQR rule on one numeric column: DataCleaner.detect_outliers and the  *)
(* outlier count of smart_column_analysis.                                   *)
(***************************************************************************)
OutlierRows == 5

OutlierValues == {IntCell(-7), IntCell(-6), IntCell(0), IntCell(4), IntCell(10), IntCell(11), NaN}

\* columns whose numbers ascend, with missing values anywhere among them
OutlierTables ==
    {[index |-> [i \in 1..OutlierRows |-> i - 1],
      cols |-> <<Column(<<"v">>, "float64", cells)>>] :
        cells \in {c \in [1..OutlierRows -> OutlierValues] :
                     \A i, j \in 1..OutlierRows :
                        (i < j /\ ~IsNull(c[i]) /\ ~IsNull(c[j])) => c[i].n <= c[j].n}}

\* kuya_service.py lines 440-444: the outlier count of a numeric column
OutlierCount(cells) == Cardinality(IqrOutliers(cells, Q(3, 2)))

InitOutliers ==
    /\ RouterInit({"free"}, {0})
    /\ JsonIdle
    /\ CleanerIdle
    /\ data \in OutlierTables
    /\ result = <<>>
    /\ called = NotCalled

DetectOutliers(threshold) ==
    /\ called = NotCalled
    /\ called' = [op |-> "detect_outliers", up |-> FALSE, threshold |-> threshold]
    /\ result' = detect_outliers(data, "iqr", threshold)
    /\ UNCHANGED <<data, notService>>

ColumnOutliers ==
    /\ called = NotCalled
    /\ called' = [op |-> "smart_column_analysis", up |-> FALSE, threshold |-> Q(3, 2)]
    /\ result' = <<OutlierCount(data.cols[1].cells)>>
    /\ UNCHANGED <<data, notService>>

NextOutliers ==
    \/ \E threshold \in {Q(3, 2), QInt(1)} : DetectOutliers(threshold)
    \/ ColumnOutliers

SpecOutliers == InitOutliers /\ [][NextOutliers]_vars

\* 4 * (the value at quantile q of the non-null numbers v), for q in quarters
\* and whole-numbered v
Quartile4(v, quarters) ==
    LET s == SortSeq(v, <)
        pos4 == quarters * (Len(s) - 1)
        lo == pos4 \div 4
    IN  IF lo + 1 >= Len(s) THEN 4 * s[Len(s)]
        ELSE 4 * s[lo + 1] + (pos4 % 4) * (s[lo + 2] - s[lo + 1])

\* value x of the column lies strictly outside [Q1 - k * IQR, Q3 + k * IQR],
\* k = k2 / 2, all compared in eighths
StrictlyOutside(x, v, k2) ==
    LET Q1 == Quartile4(v, 1)
        Q3 == Quartile4(v, 3)
    IN  \/ 8 * x < 2 * Q1 - k2 * (Q3 - Q1)
        \/ 8 * x > 2 * Q3 + k2 * (Q3 - Q1)

WholeVals(cells) == LET nn == DropNa(cells) IN [i \in 1..Len(nn) |-> nn[i].n]

FlaggedRows == IF 1 \in DOMAIN result THEN result[1] ELSE {}

\* C22: the IQR rule flags a value if and only if it lies strictly outside
\* [Q1 - k * IQR, Q3 + k * IQR]; a value on a fence is not flagged, and a missing
\* value is never flagged
C22_FlaggedIffStrictlyOutside ==
    LET cells == data.cols[1].cells
    IN  /\ called.op = "detect_outliers" =>
            \A i \in 1..Len(cells) :
                i \in FlaggedRows
                   <=> /\ ~IsNull(cells[i])
                       /\ StrictlyOutside(cells[i].n, WholeVals(cells),
                                          (2 * called.threshold.n) \div called.threshold.d)
        /\ (called.op = "smart_column_analysis" /\ result # <<>>) =>
            result[1] = Cardinality({i \in 1..Len(cells) :
                                        /\ ~IsNull(cells[i])
                                        /\ StrictlyOutside(cells[i].n, WholeVals(cells), 3)})

\* a value on the upper fence is not flagged
C22_Witness ==
    /\ called.op = "detect_outliers" /\ called.threshold = Q(3, 2)
    /\ \E i \in 1..(OutlierRows - 3) :
          /\ SubSeq(data.cols[1].cells, i, i + 3)
                = <<IntCell(0), IntCell(4), IntCell(4), IntCell(10)>>
          /\ \A j \in 1..OutlierRows : j < i \/ j > i + 3 => data.cols[1].cells[j] = IntCell(0)
    /\ FlaggedRows = {}

(***************************************************************************)
(* The per-column quality score, in hundredths of a point                   *)
(***************************************************************************)
\* 100 * (100 - min(50, missing_pct) - 15 for a numeric column with outliers in
\* more than 5% of the rows) * rows, a whole number
Stated100(col, rows, tag) ==
    LET missing100 == IF 100 * col.missing_count >= 50 * rows
                      THEN 5000 * rows ELSE 10000 * col.missing_count
        outliers100 == IF tag = "numeric" /\ 20 * col.outlier_count > rows
                       THEN 1500 * rows ELSE 0
    IN  10000 * rows - missing100 - outliers100

\* the reported score of entry c (kept in tenths) is exactly the stated value
ScoreIsStated(c) ==
    LET col == data.cols[c]
        tag == result[c].entry.info.type
        score == result[c].entry.info.quality_score
    IN  CASE tag = "constant" -> score = 0
          [] tag = "identifier" -> score = 100
          [] OTHER -> data.rows > 0 => 10 * score * data.rows = Stated100(col, data.rows, tag)

\* the reported score of entry c is the stated value rounded to one decimal
ScoreIsStatedRounded(c) ==
    LET col == data.cols[c]
        tag == result[c].entry.info.type
        score == result[c].entry.info.quality_score
    IN  CASE tag = "constant" -> score = 0
          [] tag = "identifier" -> score = 100
          [] OTHER -> data.rows > 0 =>
                         2 * Abs(10 * score * data.rows - Stated100(col, data.rows, tag))
                            <= 10 * data.rows

ScoreInRange(c) ==
    result[c].entry.info.quality_score >= 0 /\ result[c].entry.info.quality_score <= 1000

\* C23: the quality score of every profiled column is in [0, 100], is 0 for a
\* constant column, 10 for an identifier column, and else equals 100 minus
\* min(50, missing_pct), minus 15 for a numeric column whose outlier count exceeds
\* 5% of the rows
C23_ScoreAsStated ==
    called.op = "smart_column_analysis" =>
        \A c \in 1..Len(data.cols) :
            ~data.cols[c].raises => ScoreInRange(c) /\ ScoreIsStated(c)

\* C23, amended: the reported score is that value rounded to one decimal place
C23_ScoreAsStatedRounded ==
    called.op = "smart_column_analysis" =>
        \A c \in 1..Len(data.cols) :
            ~data.cols[c].raises => ScoreInRange(c) /\ ScoreIsStatedRounded(c)

\* a numeric column of 50 rows, 30 of them missing, with 3 outliers: 100 - 50 - 15
C23_Witness ==
    /\ called.op = "smart_column_analysis"
    /\ data.rows = 50 /\ ~data.cols[1].raises
    /\ data.cols[1].missing_count = 30 /\ data.cols[1].outlier_count = 3
    /\ result[1].entry.info.type = "numeric"
    /\ result[1].entry.info.quality_score = 350

(***************************************************************************)
(* Target analysis and leakage warnings.  A table is three columns a, b, y   *)
(* with y the designated target; a column is summarised by its dtype, its    *)
(* number of distinct values and the counts of its most and least frequent  *)
(* value; r gives the pairwise correlations in hundredths.                   *)
(***************************************************************************)
LeakageAbove == 95
ModerateAbove == 3
SevereAbove == 10
ClassesMax == 10
WarningsCap == 3

TargetName == "y"

\* any(x in col.lower() for x in ['id', 'index', 'key', ...]) on the names used
IdLike(name) == name = "user_id"

\* select_dtypes(include=[np.number])
NumericTarget(dtype) == dtype \in {"int64", "float64"}

Absent == [n |-> -1, d |-> 1]

\* eda.py lines 193-215: the task type and the imbalance fields of analyze_target
analyze_target(t, up) ==
    LET target == t.cols[3]
    IN  IF NumericTarget(target.dtype)
        THEN IF target.unique <= ClassesMax
             THEN [task_type |-> "classification", class_distribution |-> TRUE,
                   imbalance_ratio |-> IF target.unique >= 2
                                       THEN [n |-> Round2(Frac(target.most, target.least), up),
                                             d |-> 100]
                                       ELSE Absent,
                   is_imbalanced |-> IF target.unique >= 2
                                     THEN (IF target.most > ModerateAbove * target.least
                                           THEN "True" ELSE "False")
                                     ELSE "absent"]
             ELSE [task_type |-> "regression", class_distribution |-> FALSE,
                   imbalance_ratio |-> Absent, is_imbalanced |-> "absent"]
        ELSE [task_type |-> "classification", class_distribution |-> TRUE,
              imbalance_ratio |-> Absent, is_imbalanced |-> "absent"]

\* kuya_service.py lines 790-795
TaskType(target) ==
    IF target.unique <= ClassesMax \/ target.dtype = "object"
    THEN "classification" ELSE "regression"

\* lines 811-817: the imbalance warning
ImbalanceWarning(target) ==
    IF target.unique >= 2
    THEN (IF target.most > SevereAbove * target.least THEN "severe"
          ELSE IF target.most > ModerateAbove * target.least THEN "moderate" ELSE "")
    ELSE ""

\* lines 830-847: the leakage warnings, one per numeric feature whose correlation
\* with a numeric target is above 0.95 in absolute value
RECURSIVE LeakageWarnings(_, _)
LeakageWarnings(t, c) ==
    IF c > 2 THEN <<>>
    ELSE (IF /\ t.cols[c].dtype = "float64"
             /\ NumericTarget(t.cols[3].dtype)
             /\ Abs(t.r[{c, 3}]) > LeakageAbove
          THEN <<[column |-> <<t.cols[c].name>>, correlation |-> t.r[{c, 3}]]>>
          ELSE <<>>) \o LeakageWarnings(t, c + 1)

target_imbalance_and_leakage(t) ==
    [task_type |-> TaskType(t.cols[3]),
     class_distribution |-> TaskType(t.cols[3]) = "classification",
     imbalance_warning |-> IF TaskType(t.cols[3]) = "classification"
                           THEN ImbalanceWarning(t.cols[3]) ELSE "",
     leakage_warnings |-> LeakageWarnings(t, 1)]

\* data_quality.py lines 61-68: identifier-like column names
RECURSIVE IdWarnings(_, _)
IdWarnings(t, c) ==
    IF c > Len(t.cols) THEN <<>>
    ELSE (IF IdLike(t.cols[c].name)
          THEN <<[column |-> <<t.cols[c].name>>, risk |-> "high"]>> ELSE <<>>)
         \o IdWarnings(t, c + 1)

\* positions of the numeric columns, in column order
NumericCols(t) ==
    Positions(Len(t.cols), {c \in 1..Len(t.cols) : t.cols[c].dtype \in {"int64", "float64"}})

\* lines 71-81: every pair of numeric columns correlated above 0.95
RECURSIVE PairWarnings(_, _, _, _)
PairWarnings(t, numeric_cols, i, j) ==
    IF i > Len(numeric_cols) THEN <<>>
    ELSE IF j > Len(numeric_cols) THEN PairWarnings(t, numeric_cols, i + 1, i + 2)
    ELSE (IF Abs(t.r[{numeric_cols[i], numeric_cols[j]}]) > LeakageAbove
          THEN <<[column |-> <<t.cols[numeric_cols[i]].name, t.cols[numeric_cols[j]].name>>,
                  risk |-> "high"]>>
          ELSE <<>>) \o PairWarnings(t, numeric_cols, i, j + 1)

detect_leakage_basic(t) ==
    LET warnings_list == IdWarnings(t, 1)
                         \o (IF Len(NumericCols(t)) >= 2
                             THEN PairWarnings(t, NumericCols(t), 1, 2) ELSE <<>>)
    IN  [has_leakage_risk |-> Len(warnings_list) > 0,
         warnings |-> FirstN(warnings_list, WarningsCap)]

ClassCounts == {<<1, 1>>, <<3, 1>>, <<4, 1>>, <<7, 2>>, <<10, 3>>, <<11, 1>>}
TargetCorr == {0, 95, 96, -97}

TargetColumns ==
    {[name |-> TargetName, dtype |-> dt, unique |-> u, most |-> mc[1], least |-> mc[2]] :
        dt \in {"int64", "float64", "object", "bool"}, u \in {1, 2, 10, 11}, mc \in ClassCounts}

Feature(name, dtype) == [name |-> name, dtype |-> dtype, unique |-> 11, most |-> 1, least |-> 1]

\* the summaries some table has: one class has one count, bool has two values at
\* most, only numeric columns correlate, and the correlation matrix of three
\* columns has no negative determinant
TargetFeasible(t) ==
    /\ t.cols[3].unique = 1 => t.cols[3].most = t.cols[3].least
    /\ t.cols[3].dtype = "bool" => t.cols[3].unique <= 2
    /\ \A c, e \in 1..3 :
          (c < e /\ ~(t.cols[c].dtype \in {"int64", "float64"}
                      /\ t.cols[e].dtype \in {"int64", "float64"})) => t.r[{c, e}] = 0
    /\ 100 * 100 * 100 + 2 * t.r[{1, 2}] * t.r[{1, 3}] * t.r[{2, 3}]
          - 100 * (t.r[{1, 2}] * t.r[{1, 2}] + t.r[{1, 3}] * t.r[{1, 3}]
                   + t.r[{2, 3}] * t.r[{2, 3}]) >= 0

TargetTables ==
    {t \in [cols : {<<Feature(n, dt), Feature("b", "float64"), y>> :
                       n \in {"a", "user_id"}, dt \in {"float64", "object"},
                       y \in TargetColumns},
            r : [{{1, 2}, {1, 3}, {2, 3}} -> TargetCorr]] :
        TargetFeasible(t)}

InitTarget ==
    /\ RouterInit({"free"}, {0})
    /\ JsonIdle
    /\ CleanerIdle
    /\ data \in TargetTables
    /\ result = <<>>
    /\ called = NotCalled

AnalyzeTarget(up) ==
    /\ called = NotCalled
    /\ called' = [op |-> "analyze_target", up |-> up]
    /\ result' = analyze_target(data, up)
    /\ UNCHANGED <<data, notService>>

TargetAwareAnalysis ==
    /\ called = NotCalled
    /\ called' = [op |-> "target_aware_analysis", up |-> FALSE]
    /\ result' = target_imbalance_and_leakage(data)
    /\ UNCHANGED <<data, notService>>

DetectLeakageBasic ==
    /\ called = NotCalled
    /\ called' = [op |-> "detect_leakage_basic", up |-> FALSE]
    /\ result' = detect_leakage_basic(data)
    /\ UNCHANGED <<data, notService>>

NextTarget ==
    \/ \E up \in BOOLEAN : AnalyzeTarget(up)
    \/ TargetAwareAnalysis
    \/ DetectLeakageBasic

SpecTarget == InitTarget /\ [][NextTarget]_vars

\* the target is a classification target with at least two classes
TwoClassTarget ==
    /\ data.cols[3].unique >= 2
    /\ ~NumericTarget(data.cols[3].dtype) \/ data.cols[3].unique <= 10

\* C24: for a classification target with at least two classes the target
\* analysis reports the class distribution and an imbalance ratio equal to
\* most_frequent_count / least_frequent_count, and flags the target as imbalanced
\* exactly when the ratio is greater than 3
C24_ImbalanceReported ==
    /\ (called.op = "analyze_target" /\ TwoClassTarget) =>
          /\ result.class_distribution
          /\ result.imbalance_ratio # Absent
          /\ result.imbalance_ratio.n * data.cols[3].least
                = result.imbalance_ratio.d * data.cols[3].most
          /\ result.is_imbalanced = "True" <=> data.cols[3].most > 3 * data.cols[3].least
    /\ (called.op = "target_aware_analysis" /\ TwoClassTarget) =>
          /\ result.class_distribution
          /\ result.imbalance_warning # "" <=> data.cols[3].most > 3 * data.cols[3].least

\* the features a warning of the result names
Warned ==
    IF called.op = "target_aware_analysis"
    THEN {result.leakage_warnings[i].column : i \in 1..Len(result.leakage_warnings)}
    ELSE IF called.op = "detect_leakage_basic"
    THEN {result.warnings[i].column : i \in 1..Len(result.warnings)}
    ELSE {}

\* C25: a leakage warning is raised for a feature if and only if its correlation
\* with the designated target exceeds 0.95 in absolute value; two highly
\* correlated columns neither of which is the target raise no warning
C25_LeakageOnlyWithTarget ==
    called.op \in {"target_aware_analysis", "detect_leakage_basic"} =>
        /\ \A w \in Warned :
              \E c \in 1..2 :
                  /\ data.cols[c].name \in Range(w)
                  /\ Range(w) \subseteq {data.cols[c].name, TargetName}
                  /\ Abs(data.r[{c, 3}]) > 95
        /\ \A c \in 1..2 :
              Abs(data.r[{c, 3}]) > 95 => \E w \in Warned : data.cols[c].name \in Range(w)

(***************************************************************************)
(* The stages of process_features, each with the table it reads.  The       *)
(* input says how many numeric columns the table has as parsed and after    *)
(* cleaning; what the library's fix_dtypes does to it is not in the source  *)
(* and is drawn from its possible outcomes.                                  *)
(***************************************************************************)
EnoughNumeric == 2

graph_features == {"viz", "graphs", "distribution", "boxplot", "bar", "pairplot", "scatter", "outliers"}

Cleans(features) == RunAll(features) \/ "cleaning" \in Range(features)
Draws(features) == RunAll(features) \/ (Range(features) \cap graph_features # {})

\* lines 1136-1143: the table after the attempt to make columns numeric for the
\* graphs
AutoFix(kdf, features, numeric, outcome) ==
    IF Draws(features) /\ "cleaning" \notin Range(features) /\ numeric < EnoughNumeric
          /\ outcome = "converted"
    THEN [kdf EXCEPT !.ops = Append(@, "fix_dtypes")]
    ELSE kdf

\* lines 1076-1164: the table each stage reads
Stages(d, features, outcome) ==
    LET kdf == CleanStage(d.file, features, NoTarget)
        fixed == AutoFix(kdf, features,
                         IF Cleans(features) THEN d.cleanNumeric ELSE d.rawNumeric, outcome)
    IN  [cleaned_df |-> kdf,
         summary |-> kdf,
         correlation |-> kdf,
         graphs |-> fixed,
         columnAnalysis |-> fixed,
         healthScore |-> fixed,
         mlReadiness |-> fixed]

FeatureSelections ==
    {<<>>, <<"all">>, <<"magic">>, <<"cleaning">>, <<"viz">>, <<"correlation">>,
     <<"outliers">>, <<"cleaning", "viz">>, <<"all", "cleaning">>}

InitPipeline ==
    /\ RouterInit({"free"}, {0})
    /\ JsonIdle
    /\ CleanerIdle
    /\ data \in [file : GoodFiles, rawNumeric : 0..2, cleanNumeric : 0..2]
    /\ result = <<>>
    /\ called = NotCalled

ProcessFeatures(features, outcome) ==
    /\ called = NotCalled
    /\ called' = [op |-> "process_features", up |-> FALSE, features |-> features]
    /\ result' = Stages(data, features, outcome)
    /\ UNCHANGED <<data, notService>>

NextPipeline ==
    \E features \in FeatureSelections, outcome \in {"converted", "unchanged", "raises"} :
        ProcessFeatures(features, outcome)

SpecPipeline == InitPipeline /\ [][NextPipeline]_vars

\* C26: within one process_features run every stage after the cleaning stage
\* reads the table the cleaned-data preview is taken from
C26_StagesReadCleanedTable ==
    called.op = "process_features" =>
        \A stage \in {"summary", "correlation", "graphs", "columnAnalysis",
                      "healthScore", "mlReadiness"} :
            result[stage] = result.cleaned_df

(***************************************************************************)
(* Quota and persistence of the upload and re-analysis handlers             *)
(***************************************************************************)
\* C27: however concurrent uploads of one registered user interleave, the number
\* of that user's reports created in the current month never exceeds the plan
\* limit
C27_QuotaNeverExceeded ==
    \A e \in Registered : CountReports(e, month) <= PlanLimit(users[e].plan)

\* C28: every upload that produces a report was admitted against a quota, its
\* uploader's monthly usage being below a plan limit at admission; an upload
\* without an email or of an unregistered email is held to the free-plan limit
C28_AdmittedAgainstQuota ==
    \A r \in Reqs :
        (req[r].kind = "upload" /\ req[r].inserted) =>
            /\ req[r].admittedAt >= 0
            /\ req[r].admittedAt < (IF req[r].email \in DOMAIN users
                                    THEN PlanLimit(req[r].user.plan) ELSE FreeLimit)

\* upload_file, lines 147-216 when reports.insert_one raises: the except clause
\* at line 189 prints the error, the usage update is skipped and the success
\* response is built all the same
InsertReportFails(r) ==
    /\ req[r].kind = "upload" /\ req[r].pc = "insert"
    /\ LET q == req[r]
       IN  req' = [req EXCEPT ![r].pc = "done",
                       ![r].resp = Success(q.rid, q.file, q.features, q.target)]
    /\ UNCHANGED <<users, reports, uploads, month, nextId, notRouter>>

\* uploads of a registered user, with a store that may fail, and re-analyses
InitStore == RouterInit({"free"}, {0, 1}) /\ OthersIdle

NextStore ==
    \/ \E r \in Reqs, e \in {NoEmail, "ann@x"} :
          InOrder(r) /\ StartUpload(r, e, DataCsv, "all", NoTarget)
    \/ \E r \in Reqs, id \in 1..nextId, fs \in Features, t \in {NoTarget, "Age"} :
          InOrder(r) /\ StartReanalyze(r, id, fs, t)
    \/ \E r \in Reqs : CheckPlanLimit(r)
    \/ \E r \in Reqs : ReadAndProcess(r)
    \/ \E r \in Reqs : InsertReport(r)
    \/ \E r \in Reqs : InsertReportFails(r)
    \/ \E r \in Reqs : IncUsage(r)
    \/ \E r \in Reqs : UpdateReport(r)

SpecStore == InitStore /\ [][NextStore]_vars

\* C29: when an upload has answered with success and a report identifier, a
\* report document with that identifier is in the store
C29_SuccessMeansStored ==
    \A r \in Reqs :
        (req[r].kind = "upload" /\ req[r].pc = "done" /\ req[r].resp.status = 200
            /\ req[r].resp.body.success)
           => req[r].resp.body.reportId \in DOMAIN reports

\* the fields that identify a report
ReportIdentity(doc) == <<doc.reportId, doc.userEmail, doc.fileName, doc.createdAt>>

\* C30: a step of a re-analysis request changes neither the users' usedThisMonth
\* nor the number of reports anyone created this month, adds no report document,
\* and keeps reportId, userEmail, fileName and createdAt of every report
C30_ReanalyzeKeepsQuotaAndIdentity ==
    [][(\E r \in Reqs : req'[r].kind = "reanalyze" /\ req'[r] # req[r])
          => /\ users' = users
             /\ DOMAIN reports' = DOMAIN reports
             /\ \A id \in DOMAIN reports :
                   ReportIdentity(reports'[id]) = ReportIdentity(reports[id])
             /\ \A e \in Emails : CountReports(e, month)' = CountReports(e, month)]_vars

\* a report of a registered user has been re-analysed
C30_Witness ==
    \E r \in Reqs :
        /\ req[r].kind = "reanalyze" /\ req[r].pc = "done" /\ req[r].resp.status = 200
        /\ reports[req[r].rid].userEmail = "ann@x"
        /\ reports[req[r].rid].updatedAt # -1
        /\ users["ann@x"].usedThisMonth = 1

====
